---- MODULE Spec2Model ----
(***************************************************************************)
(* Model of the acceptance-criteria scoring engine                         *)
(* (validator/js/validator.js and its inline wrappers).                    *)
(*                                                                         *)
(* A document is a TLA+ string.  Every regular expression of the pattern   *)
(* tables is written as a syntax tree and run by a backtracking matcher    *)
(* that returns the possible end positions of a match in the priority      *)
(* order of the JavaScript engine (greedy before shorter, alternatives     *)
(* left to right), so that test() and match() with the g flag give the     *)
(* same answers and the same counts as the code.                           *)
(***************************************************************************)
EXTENDS Integers, Sequences, FiniteSets, TLC

VARIABLES
  pc,       \* "idle": no call in progress; "done": a call has returned
  op,       \* name of the exported function that was called last
  input,    \* the argument of that call
  slop,     \* what getSlopPenalty returned during that call (or NoSlop)
  outcome,  \* [threw, calls, value]: how the call ended
  lastIndex,  \* the lastIndex property of each RegExp object that is tested
  callCount,  \* the number of calls made so far
  running,    \* per caller, a validateDocument call taken scorer by scorer
  arrays      \* which array object each list of the returned result is

vars == <<pc, op, input, slop, outcome, lastIndex, callCount, running, arrays>>

(***************************************************************************)
(* Bounds of the model.                                                    *)
(***************************************************************************)
MaxBoxes == 8            \* checkbox lines in a generated document
MaxVerbs == 5            \* action verbs in a generated document
MaxMetrics == 3          \* number+unit pairs in a generated document
MaxVague == 6            \* vague-term occurrences in a generated document
MaxPenaltyTenths == 90   \* largest slop penalty, in tenths of a point
MaxSlopIssues == 3       \* longest issue list of a slop result
MaxCalls == 2            \* calls in one run of the module
MaxCallers == 2          \* callers whose validateDocument calls overlap

(***************************************************************************)
(* Characters.                                                             *)
(***************************************************************************)
UpperStr == "ABCDEFGHIJKLMNOPQRSTUVWXYZ"
LowerStr == "abcdefghijklmnopqrstuvwxyz"
Digits == {"0", "1", "2", "3", "4", "5", "6", "7", "8", "9"}
Letters == {SubSeq(LowerStr, k, k) : k \in 1..26}
Uppers == {SubSeq(UpperStr, k, k) : k \in 1..26}
\* \w after case folding, and \s restricted to the white space documents use
WordChars == Letters \cup Digits \cup {"_"}
Spaces == {" ", "\n", "\t"}

CharAt(s, i) == IF i >= 1 /\ i <= Len(s) THEN SubSeq(s, i, i) ELSE ""

LowerChar(c) ==
  IF c \in Uppers
  THEN LET k == CHOOSE k \in 1..26 : SubSeq(UpperStr, k, k) = c
       IN SubSeq(LowerStr, k, k)
  ELSE c

RECURSIVE toLowerCase(_)
\* String.prototype.toLowerCase, halving the string to keep the recursion flat
toLowerCase(s) ==
  IF Len(s) = 0 THEN ""
  ELSE IF Len(s) = 1 THEN LowerChar(s)
  ELSE LET h == Len(s) \div 2
       IN toLowerCase(SubSeq(s, 1, h)) \o toLowerCase(SubSeq(s, h + 1, Len(s)))

(***************************************************************************)
(* Regular expressions.  Every pattern of the tables carries the i flag,   *)
(* so the matcher runs case-sensitively on the case-folded text.           *)
(***************************************************************************)
Lit(w) == [t |-> "lit", w |-> w]
Set(S) == [t |-> "set", s |-> S]
Cat(rs) == [t |-> "cat", rs |-> rs]
Alt(rs) == [t |-> "alt", rs |-> rs]
Star(r) == [t |-> "star", r |-> r]
LazyStar(r) == [t |-> "lazystar", r |-> r]
Opt(r) == [t |-> "opt", r |-> r]
Plus(r) == Cat(<<r, Star(r)>>)
LazyPlus(r) == Cat(<<r, LazyStar(r)>>)
Bol == [t |-> "bol"]
WB == [t |-> "wb"]
S0 == Star(Set(Spaces))
S1 == Plus(Set(Spaces))

RECURSIVE LitsFrom(_, _)
LitsFrom(ws, k) == IF k > Len(ws) THEN <<>> ELSE <<Lit(ws[k])>> \o LitsFrom(ws, k + 1)
\* (w1|w2|...): an ordered alternation of literals
Words(ws) == Alt(LitsFrom(ws, 1))
\* ws?: a literal with an optional last letter s, or any optional suffix
OptS(w) == Cat(<<Lit(w), Opt(Lit("s"))>>)
OptLy(w) == Cat(<<Lit(w), Opt(Lit("ly"))>>)

IsW(s, i) == CharAt(s, i) \in WordChars

RECURSIVE M(_, _, _), MCat(_, _, _, _), MCatEnds(_, _, _, _, _)
RECURSIVE MAlt(_, _, _, _), MStarEnds(_, _, _, _), MLazyEnds(_, _, _, _)
\* The end positions (index after the last matched character) of the
\* matches of r that start at position i of s, most preferred first.
M(r, s, i) ==
  CASE r.t = "lit" -> IF i + Len(r.w) - 1 <= Len(s) /\ SubSeq(s, i, i + Len(r.w) - 1) = r.w
                      THEN <<i + Len(r.w)>> ELSE <<>>
    [] r.t = "set" -> IF CharAt(s, i) \in r.s THEN <<i + 1>> ELSE <<>>
    [] r.t = "cat" -> MCat(r.rs, 1, s, i)
    [] r.t = "alt" -> MAlt(r.rs, 1, s, i)
    [] r.t = "star" -> MStarEnds(r.r, s, M(r.r, s, i), 1) \o <<i>>
    [] r.t = "lazystar" -> <<i>> \o MLazyEnds(r.r, s, M(r.r, s, i), 1)
    [] r.t = "opt" -> M(r.r, s, i) \o <<i>>
    [] r.t = "bol" -> IF i = 1 \/ CharAt(s, i - 1) = "\n" THEN <<i>> ELSE <<>>
    [] r.t = "wb" -> IF IsW(s, i - 1) # IsW(s, i) THEN <<i>> ELSE <<>>

MCat(rs, k, s, i) ==
  IF k > Len(rs) THEN <<i>> ELSE MCatEnds(rs, k, s, M(rs[k], s, i), 1)

MCatEnds(rs, k, s, ends, j) ==
  IF j > Len(ends) THEN <<>>
  ELSE MCat(rs, k + 1, s, ends[j]) \o MCatEnds(rs, k, s, ends, j + 1)

MAlt(rs, k, s, i) ==
  IF k > Len(rs) THEN <<>> ELSE M(rs[k], s, i) \o MAlt(rs, k + 1, s, i)

MStarEnds(r, s, ends, j) ==
  IF j > Len(ends) THEN <<>>
  ELSE LET e == ends[j]
       IN (MStarEnds(r, s, M(r, s, e), 1) \o <<e>>) \o MStarEnds(r, s, ends, j + 1)

MLazyEnds(r, s, ends, j) ==
  IF j > Len(ends) THEN <<>>
  ELSE LET e == ends[j]
       IN (<<e>> \o MLazyEnds(r, s, M(r, s, e), 1)) \o MLazyEnds(r, s, ends, j + 1)

RECURSIVE FirstIn(_, _, _, _)
\* <<start, end>> of the match with the least start in lo..hi, or <<>>; the
\* lower half of the range is searched before the upper half
FirstIn(r, s, lo, hi) ==
  IF lo > hi THEN <<>>
  ELSE IF lo = hi
  THEN LET es == M(r, s, lo)
       IN IF es # <<>> THEN <<lo, es[1]>> ELSE <<>>
  ELSE LET mid == (lo + hi) \div 2
           l == FirstIn(r, s, lo, mid)
       IN IF l # <<>> THEN l ELSE FirstIn(r, s, mid + 1, hi)

\* <<start, end>> of the leftmost match at or after position i, or <<>>
FirstFrom(r, s, i) == FirstIn(r, s, i, Len(s) + 1)

\* RegExp.prototype.test of a pattern without the g flag: the search always
\* starts at the beginning of the text and lastIndex is neither read nor set
test(r, text) == FirstFrom(r, toLowerCase(text), 1) # <<>>

RECURSIVE matchFrom(_, _, _, _)
matchFrom(r, text, s, i) ==
  LET f == FirstFrom(r, s, i)
  IN IF f = <<>> THEN <<>>
     ELSE <<SubSeq(text, f[1], f[2] - 1)>>
          \o matchFrom(r, text, s, IF f[2] = f[1] THEN f[2] + 1 ELSE f[2])

\* String.prototype.match of a pattern with the g flag, with `|| []` applied:
\* the non-overlapping matched substrings from left to right
match(r, text) == matchFrom(r, text, toLowerCase(text), 1)


(***************************************************************************)
(* Pattern tables.                                                         *)
(***************************************************************************)
SummaryRe == Cat(<<Bol, Plus(Lit("#")), S0, Lit("summary")>>)
AcceptanceCriteriaRe == Cat(<<Bol, Plus(Lit("#")), S0, Lit("acceptance"), S1, Lit("criteria")>>)
OutOfScopeRe == Cat(<<Bol, Plus(Lit("#")), S0, Lit("out"), S1, Lit("of"), S1, Lit("scope")>>)
\* -\s*\[\s*[x ]?\s*\]
CheckboxBody == <<Lit("-"), S0, Lit("["), S0, Opt(Set({"x", " "})), S0, Lit("]")>>

REQUIRED_SECTIONS == <<
  [pattern |-> SummaryRe, name |-> "Summary", weight |-> 3],
  [pattern |-> AcceptanceCriteriaRe, name |-> "Acceptance Criteria", weight |-> 4],
  [pattern |-> OutOfScopeRe, name |-> "Out of Scope", weight |-> 2] >>

STRUCTURE_PATTERNS == [
  sectionPattern |-> SummaryRe,
  checkboxPattern |-> Cat(<<Bol>> \o CheckboxBody),
  outOfScopePattern |-> OutOfScopeRe ]

\* The comparators U+2264 and U+2265 of metricsPattern are left out: no
\* document of the model contains them, so their alternatives never match.
CLARITY_PATTERNS == [
  actionVerbs |-> Cat(<<WB, Words(<<"implement", "create", "build", "render", "handle",
      "display", "show", "hide", "enable", "disable", "validate", "submit", "load",
      "save", "delete", "update", "fetch", "send", "receive", "trigger", "navigate",
      "redirect", "authenticate", "authorize">>), WB>>),
  metricsPattern |-> Cat(<<
      Opt(Words(<<"<", ">", "=", "under", "within", "less than", "more than",
                  "at least", "at most">>)),
      S0, Plus(Set(Digits)), Opt(Cat(<<Lit("."), Plus(Set(Digits))>>)), S0,
      Alt(<<Lit("ms"), OptS("millisecond"), OptS("second"), Lit("s"), Lit("%"),
            Lit("percent"), Lit("kb"), Lit("mb"), Lit("gb"), Lit("tb"), Lit("px"),
            OptS("item"), OptS("user"), OptS("request"), OptS("error"), OptS("day"),
            OptS("hour"), OptS("minute"), OptS("call"), OptS("connection"),
            OptS("record"), OptS("retrie"), OptS("attempt"), OptS("row"),
            OptS("entrie"), OptS("result"), OptS("page"), OptS("click"),
            OptS("tap"), OptS("event")>>) >>),
  thresholdPattern |-> Cat(<<WB, Words(<<"exactly", "at least", "at most", "maximum",
      "minimum", "up to", "no more than", "no less than">>), S1, Plus(Set(Digits))>>) ]

gherkinPattern_anywhere == Cat(<<WB, Words(<<"given", "when", "then">>), S1>>)

\* (?:^|\n)\s*(?:-\s*\[\s*[x ]?\s*\]\s*)?(given|when|then)\s+
gherkinPattern ==
  Cat(<<Alt(<<Bol, Lit("\n")>>), S0,
        Opt(Cat(CheckboxBody \o <<S0>>)), Words(<<"given", "when", "then">>), S1>>)

TESTABILITY_PATTERNS == [
  vagueTerms |-> Cat(<<WB, Alt(<<
      Cat(<<OptS("work"), S1, Lit("correctly")>>),
      Cat(<<OptS("handle"), S1, Lit("properly")>>),
      OptLy("appropriate"), OptLy("intuitive"),
      Cat(<<Lit("user"), Set({"-", " "}), Lit("friendly")>>),
      OptLy("seamless"), Lit("fast"), Lit("slow"), Lit("good"), Lit("bad"),
      Lit("nice"), Lit("better"), Lit("worse"), OptLy("adequate"),
      OptLy("sufficient"), Lit("reasonable"), Lit("reasonably"), Lit("acceptable"),
      Lit("properly"), Lit("correctly"),
      Cat(<<Lit("as"), S1, Lit("expected")>>),
      Cat(<<Lit("as"), S1, Lit("needed")>>) >>), WB>>),
  userStoryPattern |-> Cat(<<WB, Lit("as"), S1, Words(<<"a", "an", "the">>), S1,
      LazyPlus(Set(WordChars \cup Spaces)), Opt(Lit(",")), S0, Lit("i"), S1,
      Lit("want")>>),
  gherkinPattern |-> gherkinPattern,
  compoundPattern |-> Cat(<<WB, Words(<<"and", "or">>), WB>>),
  implementationPattern |-> Cat(<<WB, Alt(<<
      Cat(<<Lit("postgres"), Opt(Lit("ql"))>>), Lit("mysql"), Lit("mongodb"),
      Lit("redis"), Lit("sql"), Lit("react"), Lit("vue"), Lit("angular"),
      Lit("svelte"), Lit("tailwind"), Lit("css"), Lit("scss"), Lit("sass"),
      Lit("aws"), Lit("lambda"), Lit("s3"), Lit("ec2"), Lit("gcp"), Lit("azure"),
      Lit("docker"), Lit("kubernetes"), Lit("k8s"),
      Cat(<<Lit("api"), S1, Lit("endpoint")>>), Lit("microservice"),
      Lit("graphql"), Cat(<<Lit("rest"), S1, Lit("api")>>), Lit("webpack"),
      Lit("vite"), Lit("npm"), Lit("yarn") >>), WB>>) ]

COMPLETENESS_PATTERNS == [
  errorCasePattern |-> Cat(<<WB, Words(<<"error", "fail", "invalid", "empty", "null",
      "undefined", "missing", "timeout", "offline", "denied", "unauthorized",
      "forbidden", "not found", "exception">>), WB>>),
  edgeCasePattern |-> Cat(<<WB, Alt(<<
      Cat(<<Lit("edge"), S1, Lit("case")>>),
      Cat(<<Lit("boundary"), S1, Lit("condition")>>),
      Cat(<<Lit("boundary"), S1, Lit("value")>>),
      Cat(<<Lit("upper"), S1, Lit("limit")>>),
      Cat(<<Lit("lower"), S1, Lit("limit")>>),
      Cat(<<Lit("maximum"), S1, Lit("value")>>),
      Cat(<<Lit("minimum"), S1, Lit("value")>>),
      Cat(<<Lit("empty"), S1, Lit("state")>>),
      Cat(<<Lit("no"), S1, Lit("results")>>),
      Cat(<<Lit("only"), S1, Lit("one")>>),
      Cat(<<Lit("zero"), S1, OptS("item")>>),
      Lit("overflow"), Lit("underflow"),
      Cat(<<Lit("race"), S1, Lit("condition")>>),
      Lit("concurrent"), Lit("simultaneous") >>), WB>>),
  permissionPattern |-> Cat(<<WB, Words(<<"permission", "role", "admin", "user", "guest",
      "authenticated", "logged in", "logged out">>), WB>>) ]

(***************************************************************************)
(* RegExp objects.  The tables hold one RegExp object per entry; an object *)
(* is its pattern, its flags and its lastIndex property.  test() reads and *)
(* writes lastIndex when the object has the g flag and neither otherwise.  *)
(* String.prototype.match with a g pattern sets lastIndex to 0 before the  *)
(* search and leaves it at 0, so the patterns the code only hands to       *)
(* match carry no lastIndex from one call to the next.                     *)
(***************************************************************************)
SECTION_FLAGS_globalSummary == <<"gim", "im", "im">>

SECTION_FLAGS == <<"im", "im", "im">>

STRUCTURE_FLAGS ==
  [ sectionPattern |-> "im", checkboxPattern |-> "gim", outOfScopePattern |-> "im" ]

CLARITY_FLAGS ==
  [ actionVerbs |-> "gi", metricsPattern |-> "gi", thresholdPattern |-> "gi" ]

TESTABILITY_FLAGS_globalCompound ==
  [ vagueTerms |-> "gi", userStoryPattern |-> "i", gherkinPattern |-> "im",
    compoundPattern |-> "gi", implementationPattern |-> "gi" ]

TESTABILITY_FLAGS ==
  [ vagueTerms |-> "gi", userStoryPattern |-> "i", gherkinPattern |-> "im",
    compoundPattern |-> "i", implementationPattern |-> "gi" ]

COMPLETENESS_FLAGS ==
  [ errorCasePattern |-> "gi", edgeCasePattern |-> "gi", permissionPattern |-> "gi" ]

global(flags) == \E k \in 1..Len(flags) : SubSeq(flags, k, k) = "g"

RegExp(name, source, flags) == [name |-> name, source |-> source, global |-> global(flags)]

Section(k) ==
  RegExp("REQUIRED_SECTIONS." \o REQUIRED_SECTIONS[k].name,
         REQUIRED_SECTIONS[k].pattern, SECTION_FLAGS[k])
Structure(key) ==
  RegExp("STRUCTURE_PATTERNS." \o key, STRUCTURE_PATTERNS[key], STRUCTURE_FLAGS[key])
Testability(key) ==
  RegExp("TESTABILITY_PATTERNS." \o key, TESTABILITY_PATTERNS[key], TESTABILITY_FLAGS[key])

\* The objects each function hands to test()
StructureTests == {Structure("sectionPattern"), Structure("outOfScopePattern")}
TestabilityTests ==
  {Testability("userStoryPattern"), Testability("gherkinPattern"),
   Testability("compoundPattern")}
SectionTests == {Section(k) : k \in 1..Len(REQUIRED_SECTIONS)}
TestedRegExps == StructureTests \cup TestabilityTests \cup SectionTests

\* lastIndex of every object when the module has been loaded
ZeroIndex == [n \in {re.name : re \in TestedRegExps} |-> 0]

\* <<start, end>> of the match re.test(text) finds when the object's
\* lastIndex is li[re.name], or <<>>: a g pattern is searched from lastIndex
\* (and fails beyond the end of the text), any other from the beginning
RegExpExec(re, text, li) ==
  IF ~re.global THEN FirstFrom(re.source, toLowerCase(text), 1)
  ELSE IF li[re.name] > Len(text) THEN <<>>
  ELSE FirstFrom(re.source, toLowerCase(text), li[re.name] + 1)

\* RegExp.prototype.test
RegExpTest(re, text, li) == RegExpExec(re, text, li) # <<>>

\* lastIndex after re.test(text): the end of the match or 0 for a g
\* pattern, untouched otherwise
LastIndexAfter(re, text, li) ==
  IF ~re.global THEN li[re.name]
  ELSE IF RegExpExec(re, text, li) = <<>> THEN 0
  ELSE RegExpExec(re, text, li)[2] - 1

\* lastIndex of all objects after each object of `tests` has tested text once
tested(tests, text, li) ==
  [ n \in DOMAIN li |->
      IF \E re \in tests : re.name = n
      THEN LastIndexAfter(CHOOSE re \in tests : re.name = n, text, li)
      ELSE li[n] ]

(***************************************************************************)
(* Array helpers.                                                          *)
(***************************************************************************)
\* Array.prototype.slice(0, n)
slice0(a, n) == SubSeq(a, 1, IF Len(a) < n THEN Len(a) ELSE n)

RECURSIVE join(_, _)
\* Array.prototype.join(sep)
join(a, sep) ==
  IF a = <<>> THEN ""
  ELSE IF Len(a) = 1 THEN a[1]
  ELSE a[1] \o sep \o join(Tail(a), sep)

RECURSIVE mapLower(_)
\* matches.map(m => m.toLowerCase())
mapLower(a) == IF a = <<>> THEN <<>> ELSE <<toLowerCase(Head(a))>> \o mapLower(Tail(a))

RECURSIVE uniqueFrom(_, _, _)
uniqueFrom(a, k, acc) ==
  IF k > Len(a) THEN acc
  ELSE uniqueFrom(a, k + 1,
         IF \E j \in 1..Len(acc) : acc[j] = a[k] THEN acc ELSE Append(acc, a[k]))
\* [...new Set(a)]: the distinct elements in the order of their first occurrence
unique(a) == uniqueFrom(a, 1, <<>>)

RECURSIVE sumWeights(_)
\* a.reduce((sum, s) => sum + s.weight, 0)
sumWeights(a) == IF a = <<>> THEN 0 ELSE Head(a).weight + sumWeights(Tail(a))

RECURSIVE names(_)
\* a.map(s => s.name)
names(a) == IF a = <<>> THEN <<>> ELSE <<Head(a).name>> \o names(Tail(a))

min(a, b) == IF a < b THEN a ELSE b
max(a, b) == IF a > b THEN a ELSE b

(***************************************************************************)
(* Detection functions.  The indicators lists are display strings that no  *)
(* scorer reads; they are not modelled.  `li` is lastIndex of the tested    *)
(* objects when the function is entered; no function tests an object       *)
(* twice, so every test() of the call finds the object as `li` has it.     *)
(***************************************************************************)
detectStructure(text, li) ==
  LET hasSummary == RegExpTest(Structure("sectionPattern"), text, li)
      checkboxMatches == match(STRUCTURE_PATTERNS.checkboxPattern, text)
      hasOutOfScope == RegExpTest(Structure("outOfScopePattern"), text, li)
  IN [ hasSummary |-> hasSummary,
       hasCheckboxes |-> Len(checkboxMatches) > 0,
       checkboxCount |-> Len(checkboxMatches),
       hasOutOfScope |-> hasOutOfScope ]

detectClarity(text) ==
  LET actionVerbMatches == match(CLARITY_PATTERNS.actionVerbs, text)
      metricsMatches == match(CLARITY_PATTERNS.metricsPattern, text)
      thresholdMatches == match(CLARITY_PATTERNS.thresholdPattern, text)
  IN [ hasActionVerbs |-> Len(actionVerbMatches) > 0,
       actionVerbCount |-> Len(actionVerbMatches),
       hasMetrics |-> Len(metricsMatches) > 0,
       metricsCount |-> Len(metricsMatches),
       hasThresholds |-> Len(thresholdMatches) > 0 ]

detectTestability(text, li) ==
  LET vagueMatches == match(TESTABILITY_PATTERNS.vagueTerms, text)
      hasUserStory == RegExpTest(Testability("userStoryPattern"), text, li)
      hasGherkin == RegExpTest(Testability("gherkinPattern"), text, li)
      hasCompound == RegExpTest(Testability("compoundPattern"), text, li)
      implementationMatches == match(TESTABILITY_PATTERNS.implementationPattern, text)
  IN [ vagueTermCount |-> Len(vagueMatches),
       vagueTerms |-> unique(mapLower(vagueMatches)),
       hasUserStoryAntiPattern |-> hasUserStory,
       hasGherkinAntiPattern |-> hasGherkin,
       hasCompoundCriteria |-> hasCompound,
       hasImplementationDetails |-> Len(implementationMatches) > 0,
       implementationTerms |-> unique(mapLower(implementationMatches)),
       hasIssues |-> Len(vagueMatches) > 0 \/ hasUserStory \/ hasGherkin
                     \/ Len(implementationMatches) > 0 ]

detectCompleteness(text) ==
  LET checkboxMatches == match(STRUCTURE_PATTERNS.checkboxPattern, text)
      errorCaseMatches == match(COMPLETENESS_PATTERNS.errorCasePattern, text)
      edgeCaseMatches == match(COMPLETENESS_PATTERNS.edgeCasePattern, text)
      permissionMatches == match(COMPLETENESS_PATTERNS.permissionPattern, text)
  IN [ criterionCount |-> Len(checkboxMatches),
       hasErrorCases |-> Len(errorCaseMatches) > 0,
       errorCaseCount |-> Len(errorCaseMatches),
       hasEdgeCases |-> Len(edgeCaseMatches) > 0,
       edgeCaseCount |-> Len(edgeCaseMatches),
       hasPermissions |-> Len(permissionMatches) > 0 ]

RECURSIVE sectionsFrom(_, _, _, _, _)
sectionsFrom(text, li, k, found, missing) ==
  IF k > Len(REQUIRED_SECTIONS) THEN [found |-> found, missing |-> missing]
  ELSE LET section == REQUIRED_SECTIONS[k]
           entry == [name |-> section.name, weight |-> section.weight]
       IN IF RegExpTest(Section(k), text, li)
          THEN sectionsFrom(text, li, k + 1, Append(found, entry), missing)
          ELSE sectionsFrom(text, li, k + 1, found, Append(missing, entry))

detectSections(text, li) == sectionsFrom(text, li, 1, <<>>, <<>>)

(***************************************************************************)
(* Scoring functions.  Each sub-check of a scorer is one operator giving   *)
(* the points it adds to `score` and the strings it pushes; the scorer     *)
(* runs its sub-checks in the order of the source.  Besides the returned   *)
(* object a scorer's record carries `detection`, the scorer's local, and   *)
(* `calls`, the functions that ran, in the order in which they started.    *)
(***************************************************************************)
Check(points, issues, strengths) ==
  [points |-> points, issues |-> issues, strengths |-> strengths]

RECURSIVE sumPoints(_), allIssues(_), allStrengths(_)
sumPoints(cs) == IF cs = <<>> THEN 0 ELSE Head(cs).points + sumPoints(Tail(cs))
allIssues(cs) == IF cs = <<>> THEN <<>> ELSE Head(cs).issues \o allIssues(Tail(cs))
allStrengths(cs) == IF cs = <<>> THEN <<>> ELSE Head(cs).strengths \o allStrengths(Tail(cs))

structureSummary_five(detection) ==
  IF detection.hasSummary
  THEN Check(5, <<>>, <<"Summary section present">>)
  ELSE Check(0, <<"Add a Summary section describing the feature/change">>, <<>>)

\* Summary section (10 pts)
structureSummary(detection) ==
  IF detection.hasSummary
  THEN Check(10, <<>>, <<"Summary section present">>)
  ELSE Check(0, <<"Add a Summary section describing the feature/change">>, <<>>)

structureCheckboxes_tier5(detection) ==
  IF detection.checkboxCount >= 5
  THEN Check(10, <<>>, <<ToString(detection.checkboxCount) \o " checkbox criteria found">>)
  ELSE IF detection.checkboxCount > 0
  THEN Check(5, <<"Add more checkbox criteria (recommend 3-7)">>, <<>>)
  ELSE Check(0, <<"Missing checkbox criteria - use \"- [ ]\" format">>, <<>>)

\* Checkbox criteria (10 pts)
structureCheckboxes(detection) ==
  IF detection.checkboxCount >= 3
  THEN Check(10, <<>>, <<ToString(detection.checkboxCount) \o " checkbox criteria found">>)
  ELSE IF detection.checkboxCount > 0
  THEN Check(5, <<"Add more checkbox criteria (recommend 3-7)">>, <<>>)
  ELSE Check(0, <<"Missing checkbox criteria - use \"- [ ]\" format">>, <<>>)

\* Out of Scope section (5 pts)
structureOutOfScope(detection) ==
  IF detection.hasOutOfScope
  THEN Check(5, <<>>, <<"Out of Scope section present">>)
  ELSE Check(0, <<"Add Out of Scope section to set clear boundaries">>, <<>>)

\* The object scoreStructure returns; score starts at 0
structureResult(detection, checks, maxScore) ==
  [ score |-> min(0 + sumPoints(checks), maxScore), maxScore |-> maxScore,
    issues |-> allIssues(checks), strengths |-> allStrengths(checks),
    detection |-> detection,
    calls |-> <<"scoreStructure", "detectStructure">> ]

\* The three checks of scoreStructure, in the order the code makes them
structureChecks(detection) ==
  structureResult(detection,
                  << structureSummary(detection), structureCheckboxes(detection),
                     structureOutOfScope(detection) >>,
                  25)

scoreStructure(text, li) == structureChecks(detectStructure(text, li))

\* Action verbs (15 pts max)
clarityActionVerbs(detection) ==
  IF detection.actionVerbCount >= 5
  THEN Check(15, <<>>, <<ToString(detection.actionVerbCount) \o " action verbs for testable behavior">>)
  ELSE IF detection.actionVerbCount >= 3
  THEN Check(10, <<>>, <<ToString(detection.actionVerbCount) \o " action verbs found">>)
  ELSE IF detection.actionVerbCount > 0
  THEN Check(5, <<"Add more action verbs (implement, create, display, validate, etc.)">>, <<>>)
  ELSE Check(0, <<"Missing action verbs - criteria should describe testable behavior">>, <<>>)

clarityMetrics_thresholdBonus(detection) ==
  IF detection.metricsCount >= 3
  THEN Check(15, <<>>, <<ToString(detection.metricsCount) \o " measurable metrics with units">>)
  ELSE IF detection.metricsCount >= 1
  THEN Check(IF detection.hasThresholds THEN 10 ELSE 8,
             <<"Add more measurable metrics (time limits, percentages, counts)">>, <<>>)
  ELSE Check(0, <<"No measurable metrics - add specific numbers with units">>, <<>>)

\* Measurable metrics (15 pts max)
clarityMetrics(detection) ==
  IF detection.metricsCount >= 3
  THEN Check(15, <<>>, <<ToString(detection.metricsCount) \o " measurable metrics with units">>)
  ELSE IF detection.metricsCount >= 1
  THEN Check(8, <<"Add more measurable metrics (time limits, percentages, counts)">>, <<>>)
  ELSE Check(0, <<"No measurable metrics - add specific numbers with units">>, <<>>)

\* The object scoreClarity returns; score starts at 0
clarityResult(detection, checks, maxScore) ==
  [ score |-> min(0 + sumPoints(checks), maxScore), maxScore |-> maxScore,
    issues |-> allIssues(checks), strengths |-> allStrengths(checks),
    detection |-> detection,
    calls |-> <<"scoreClarity", "detectClarity">> ]

\* The two checks of scoreClarity, in the order the code makes them
clarityChecks(detection) ==
  clarityResult(detection,
                << clarityActionVerbs(detection), clarityMetrics(detection) >>,
                30)

scoreClarity(text) == clarityChecks(detectClarity(text))

testabilityVague_threeTiers(detection) ==
  IF detection.vagueTermCount = 0
  THEN Check(0, <<>>, <<"No vague terms - criteria are specific">>)
  ELSE IF detection.vagueTermCount <= 2
  THEN Check(-5, <<"Remove vague terms: " \o join(slice0(detection.vagueTerms, 2), ", ")>>, <<>>)
  ELSE IF detection.vagueTermCount <= 5
  THEN Check(-10, <<ToString(detection.vagueTermCount) \o " vague terms found: "
                   \o join(slice0(detection.vagueTerms, 3), ", ")>>, <<>>)
  ELSE Check(-15, <<ToString(detection.vagueTermCount) \o " vague terms found: "
                   \o join(slice0(detection.vagueTerms, 3), ", ")>>, <<>>)

testabilityVague_distinctCount(detection) ==
  IF Len(detection.vagueTerms) = 0
  THEN Check(0, <<>>, <<"No vague terms - criteria are specific">>)
  ELSE IF Len(detection.vagueTerms) <= 2
  THEN Check(-5, <<"Remove vague terms: " \o join(slice0(detection.vagueTerms, 2), ", ")>>, <<>>)
  ELSE Check(-15, <<ToString(detection.vagueTermCount) \o " vague terms found: "
                   \o join(slice0(detection.vagueTerms, 3), ", ")>>, <<>>)

\* Deduct for vague terms (up to -15 pts)
testabilityVague(detection) ==
  IF detection.vagueTermCount = 0
  THEN Check(0, <<>>, <<"No vague terms - criteria are specific">>)
  ELSE IF detection.vagueTermCount <= 2
  THEN Check(-5, <<"Remove vague terms: " \o join(slice0(detection.vagueTerms, 2), ", ")>>, <<>>)
  ELSE Check(-15, <<ToString(detection.vagueTermCount) \o " vague terms found: "
                   \o join(slice0(detection.vagueTerms, 3), ", ")>>, <<>>)

\* Deduct for user story anti-pattern (-5 pts)
testabilityUserStory(detection) ==
  IF detection.hasUserStoryAntiPattern
  THEN Check(-5, <<"Remove user story syntax - use simple checkboxes instead">>, <<>>)
  ELSE Check(0, <<>>, <<>>)

\* Deduct for Gherkin anti-pattern (-5 pts)
testabilityGherkin(detection) ==
  IF detection.hasGherkinAntiPattern
  THEN Check(-5, <<"Remove Given/When/Then syntax - use simple checkboxes">>, <<>>)
  ELSE Check(0, <<>>, <<>>)

\* Deduct for compound criteria (-3 pts)
testabilityCompound(detection) ==
  IF detection.hasCompoundCriteria
  THEN Check(-3, <<"Split compound criteria (and/or) into separate items">>, <<>>)
  ELSE Check(0, <<>>, <<>>)

\* Deduct for implementation details (-5 pts)
testabilityImplementation(detection) ==
  IF detection.hasImplementationDetails
  THEN Check(-5, <<"Remove implementation details: "
                  \o join(slice0(detection.implementationTerms, 3), ", ")>>, <<>>)
  ELSE Check(0, <<>>, <<>>)

testabilityClean_vagueAndCompoundOnly(detection) ==
  IF detection.vagueTermCount = 0 /\ ~detection.hasCompoundCriteria
  THEN Check(0, <<>>, <<"All criteria are binary verifiable">>)
  ELSE Check(0, <<>>, <<>>)

\* Positive indicator if clean
testabilityClean(detection) ==
  IF ~detection.hasIssues /\ ~detection.hasCompoundCriteria
  THEN Check(0, <<>>, <<"All criteria are binary verifiable">>)
  ELSE Check(0, <<>>, <<>>)

testabilityClamp_noFloor(score, maxScore) == min(score, maxScore)

\* Math.max(0, Math.min(score, maxScore))
testabilityClamp(score, maxScore) == max(0, min(score, maxScore))

testabilityResult_fromZero(detection, checks, maxScore) ==
  [ score |-> testabilityClamp(0 + sumPoints(checks), maxScore),
    maxScore |-> maxScore,
    issues |-> allIssues(checks), strengths |-> allStrengths(checks),
    detection |-> detection,
    calls |-> <<"scoreTestability", "detectTestability">> ]

\* The object scoreTestability returns; score starts at maxScore
testabilityResult(detection, checks, maxScore) ==
  [ score |-> testabilityClamp(maxScore + sumPoints(checks), maxScore),
    maxScore |-> maxScore,
    issues |-> allIssues(checks), strengths |-> allStrengths(checks),
    detection |-> detection,
    calls |-> <<"scoreTestability", "detectTestability">> ]

\* The deductions of scoreTestability, in the order the code makes them
testabilityChecks(detection) ==
  testabilityResult(detection,
                    << testabilityVague(detection), testabilityUserStory(detection),
                       testabilityGherkin(detection), testabilityCompound(detection),
                       testabilityImplementation(detection), testabilityClean(detection) >>,
                    25)

scoreTestability(text, li) == testabilityChecks(detectTestability(text, li))

completenessCount_fullAboveSeven(detection) ==
  IF detection.criterionCount >= 3
  THEN Check(8, <<>>, <<ToString(detection.criterionCount) \o " criteria (ideal range 3-7)">>)
  ELSE IF detection.criterionCount > 0
  THEN Check(4, <<"Add more criteria (recommend 3-7 per story)">>, <<>>)
  ELSE Check(0, <<"No checkbox criteria found">>, <<>>)

\* Criterion count (8 pts) - ideal is 3-7
completenessCount(detection) ==
  IF detection.criterionCount >= 3 /\ detection.criterionCount <= 7
  THEN Check(8, <<>>, <<ToString(detection.criterionCount) \o " criteria (ideal range 3-7)">>)
  ELSE IF detection.criterionCount > 7
  THEN Check(4, <<"Too many criteria - consider splitting into smaller stories">>, <<>>)
  ELSE IF detection.criterionCount > 0
  THEN Check(4, <<"Add more criteria (recommend 3-7 per story)">>, <<>>)
  ELSE Check(0, <<"No checkbox criteria found">>, <<>>)

\* Error/edge cases covered (6 pts)
completenessCases_silentPartial(detection) ==
  IF detection.hasErrorCases /\ detection.hasEdgeCases
  THEN Check(6, <<>>, <<"Error states and edge cases addressed">>)
  ELSE IF detection.hasErrorCases \/ detection.hasEdgeCases
  THEN Check(3, <<>>, <<"Some error/edge case handling">>)
  ELSE Check(0, <<"Add error handling and edge case criteria">>, <<>>)

completenessCases(detection) ==
  IF detection.hasErrorCases /\ detection.hasEdgeCases
  THEN Check(6, <<>>, <<"Error states and edge cases addressed">>)
  ELSE IF detection.hasErrorCases \/ detection.hasEdgeCases
  THEN Check(3, <<"Consider adding more error/edge case handling">>, <<>>)
  ELSE Check(0, <<"Add error handling and edge case criteria">>, <<>>)

\* Section completeness (6 pts).  sectionPercentage >= 0.9 and >= 0.6 are
\* compared as 10 * sectionScore >= 9 * maxSectionScore and >= 6 * ...; the
\* quotients k/9 that occur are at least 0.04 away from both thresholds.
sectionTier(sections, sectionScore, maxSectionScore) ==
  IF 10 * sectionScore >= 9 * maxSectionScore
  THEN Check(6, <<>>, <<ToString(Len(sections.found)) \o "/"
                       \o ToString(Len(REQUIRED_SECTIONS)) \o " sections present">>)
  ELSE IF 10 * sectionScore >= 6 * maxSectionScore
  THEN Check(3, <<"Missing sections: " \o join(names(sections.missing), ", ")>>, <<>>)
  ELSE Check(0, <<"Add required sections: Summary, Acceptance Criteria, Out of Scope">>, <<>>)

completenessSections(sections) ==
  sectionTier(sections, sumWeights(sections.found), sumWeights(REQUIRED_SECTIONS))

\* The object scoreCompleteness returns; score starts at 0
completenessResult(detection, sections, checks, maxScore) ==
  [ score |-> min(0 + sumPoints(checks), maxScore), maxScore |-> maxScore,
    issues |-> allIssues(checks), strengths |-> allStrengths(checks),
    detection |-> detection, sections |-> sections,
    calls |-> <<"scoreCompleteness", "detectCompleteness", "detectSections">> ]

\* The three checks of scoreCompleteness, in the order the code makes them
completenessChecks(detection, sections) ==
  completenessResult(detection, sections,
                     << completenessCount(detection), completenessCases(detection),
                        completenessSections(sections) >>,
                     20)

scoreCompleteness(text, li) ==
  completenessChecks(detectCompleteness(text), detectSections(text, li))

(***************************************************************************)
(* JavaScript values passed as the `text` argument.                        *)
(***************************************************************************)
Str(w) == [type |-> "string", str |-> w, num |-> 0]
Num(n) == [type |-> "number", str |-> "", num |-> n]
Null == [type |-> "null", str |-> "", num |-> 0]
Undefined == [type |-> "undefined", str |-> "", num |-> 0]
Obj == [type |-> "object", str |-> "", num |-> 0]
True == [type |-> "boolean", str |-> "", num |-> 1]
False == [type |-> "boolean", str |-> "", num |-> 0]

\* !v
falsy(v) ==
  \/ v.type \in {"null", "undefined"}
  \/ v.type = "string" /\ v.str = ""
  \/ v.type \in {"number", "boolean"} /\ v.num = 0

\* typeof v
typeof(v) == IF v.type = "null" THEN "object" ELSE v.type

Returned(value, calls) == [threw |-> FALSE, value |-> value, calls |-> calls]
\* A TypeError leaves the function; `calls` are the functions entered so far.
Thrown(calls) == [threw |-> TRUE, value |-> Undefined, calls |-> calls]

(***************************************************************************)
(* Slop detector.  slop-detection.js is not among the sources; a result    *)
(* of getSlopPenalty is any record {penalty >= 0, issues: string[]}.  The  *)
(* penalty is kept in tenths of a point so that it need not be a whole     *)
(* number.                                                                 *)
(***************************************************************************)
SlopIssueNames == <<"filler phrase", "buzzword", "hedging">>

getSlopPenalty(text) ==
  { [penaltyTenths |-> p, issues |-> SubSeq(SlopIssueNames, 1, min(n, Len(SlopIssueNames)))] :
      p \in 0..MaxPenaltyTenths, n \in 0..MaxSlopIssues }

(***************************************************************************)
(* Documents given to the engine.  A document is put together from lines   *)
(* that each carry one signal of the rubric; p says how many of each.      *)
(***************************************************************************)
RECURSIVE cycle(_, _, _)
\* the first n entries of ws, ws, ws, ... joined
cycle(ws, k, n) ==
  IF k > n THEN "" ELSE ws[((k - 1) % Len(ws)) + 1] \o cycle(ws, k + 1, n)

Line(w) == IF w = "" THEN "" ELSE w \o "\n"

Bare ==
  [ summary |-> "none", ac |-> FALSE, oos |-> FALSE, boxes |-> 0, verbs |-> 0,
    metrics |-> 0, thresholds |-> FALSE, vague |-> 0, story |-> FALSE,
    gherkin |-> FALSE, compound |-> FALSE, impl |-> FALSE, err |-> FALSE,
    edge |-> FALSE ]

Doc(p) ==
  (IF p.summary = "hash" THEN "# Summary\n"
   ELSE IF p.summary = "plain" THEN "Summary\n" ELSE "")
  \o (IF p.ac THEN "## Acceptance Criteria\n" ELSE "")
  \o cycle(<<"- [x] ok\n", "- [ ] ok\n", "-[] ok\n">>, 1, p.boxes)
  \o Line(cycle(<<"show ", "Create ", "validate ", "load ">>, 1, p.verbs))
  \o Line(cycle(<<"5 ms ", "under 2.5 seconds ", "99 % ">>, 1, p.metrics))
  \o (IF p.thresholds THEN "exactly 4 tries\n" ELSE "")
  \o Line(cycle(<<"fast ", "Fast ", "works correctly ">>, 1, p.vague))
  \o (IF p.story THEN "as a power user, i want x\n" ELSE "")
  \o (IF p.gherkin THEN "when ready\n" ELSE "")
  \o (IF p.compound THEN "a or b\n" ELSE "")
  \o (IF p.impl THEN "redis\n" ELSE "")
  \o (IF p.err THEN "timeout\n" ELSE "")
  \o (IF p.edge THEN "race condition\n" ELSE "")
  \o (IF p.oos THEN "# Out of Scope\n" ELSE "")

StructureDocs ==
  { Doc([Bare EXCEPT !.summary = s, !.boxes = b, !.oos = o]) :
      s \in {"none", "hash", "plain"}, b \in 0..MaxBoxes, o \in BOOLEAN }

ClarityDocs ==
  { Doc([Bare EXCEPT !.verbs = v, !.metrics = m, !.thresholds = t]) :
      v \in 0..MaxVerbs, m \in 0..MaxMetrics, t \in BOOLEAN }

TestabilityDocs ==
  { Doc([Bare EXCEPT !.boxes = 2, !.vague = v, !.story = s, !.gherkin = g,
                     !.compound = c, !.impl = i]) :
      v \in 0..MaxVague, s \in BOOLEAN, g \in BOOLEAN, c \in BOOLEAN, i \in BOOLEAN }

CompletenessDocs ==
  { Doc([Bare EXCEPT !.boxes = b, !.err = e, !.edge = d,
                     !.summary = s, !.ac = a, !.oos = o]) :
      b \in 0..MaxBoxes, e \in BOOLEAN, d \in BOOLEAN,
      s \in {"none", "hash"}, a \in BOOLEAN, o \in BOOLEAN }

\* Documents that mix the dimensions, from nothing at all to a full score
MixedDoc(st, cl, v, co) ==
  Doc([Bare EXCEPT !.summary = IF st THEN "hash" ELSE "none", !.ac = st, !.oos = st,
                   !.boxes = IF st THEN 3 ELSE 0,
                   !.verbs = IF cl THEN MaxVerbs ELSE 0,
                   !.metrics = IF cl THEN MaxMetrics ELSE 0,
                   !.vague = v, !.story = (v = MaxVague), !.gherkin = (v = MaxVague),
                   !.compound = (v = MaxVague), !.impl = (v = MaxVague),
                   !.err = co, !.edge = co])

MixedDocs ==
  { MixedDoc(st, cl, v, co) :
      st \in BOOLEAN, cl \in BOOLEAN, v \in {0, 1, MaxVague}, co \in BOOLEAN }
  \cup {"Hello world", "x"}

\* A heading line: markdown ("# Summary"), plain text ("Summary", as pasted
\* from a word processor), the title inside a sentence, or no line at all
Heading(style, marker, title) ==
  IF style = "hash" THEN marker \o " " \o title \o "\n"
  ELSE IF style = "plain" THEN title \o "\n"
  ELSE IF style = "inline" THEN "see " \o title \o "\n"
  ELSE ""

HeadingStyles == {"none", "hash", "plain", "inline"}

\* Documents whose three headings each come in every style
SectionDocs ==
  { Heading(s, "#", "Summary") \o "text\n"
      \o Heading(a, "##", "Acceptance Criteria") \o "- [ ] ok\n"
      \o Heading(o, "#", "out of scope") :
      s \in HeadingStyles, a \in HeadingStyles, o \in HeadingStyles }

\* Lines with a Gherkin keyword, or a word that only starts with one, at
\* the start of the line, after a checkbox marker, or inside a sentence
GherkinDocs ==
  { first \o before \o word \o after :
      first \in {"", "- [ ] Display x\n"},
      before \in {"", "  ", "- [ ] ", "- [x]  ", "-[] ", "click ", "- ", "note\n\t"},
      word \in {"given", "When", "THEN", "whenever", "the"},
      after \in {" x\n", "\n", "", ": x\n", "\tx"} }

\* A number followed by a listed unit, by a word that is no unit, or by nothing
MetricItems ==
  { "", "5 ms ", "2.5 seconds ", "99% ", "10 minutes ", "7 ", "5 steps ",
    "3 sheep ", "42 widgets ", "4 mbps " }

MetricDocs == { "Load in " \o a \o b \o "\n" : a \in MetricItems, b \in MetricItems }

\* Texts around the wrapper's length threshold: 49 or 50 characters that no
\* pattern matches, with white space before and after them
LengthDocs ==
  { "  " \o cycle(<<"x">>, 1, 49) \o " \n", "  " \o cycle(<<"x">>, 1, 50) \o "\n",
    cycle(<<"x">>, 1, 49) \o "\n\n", cycle(<<"x">>, 1, 50) }

\* The strings validateDocument is called with
ValidateDocs == MixedDocs \cup {""} \cup LengthDocs

(***************************************************************************)
(* Main validation function.                                               *)
(***************************************************************************)
slopDeduction_round(slopPenalty) ==
  IF slopPenalty.penaltyTenths > 0
  THEN min(5, (slopPenalty.penaltyTenths * 6 + 50) \div 100)
  ELSE 0

\* Math.min(5, Math.floor(slopPenalty.penalty * 0.6)) under `penalty > 0`.
\* With the penalty p/10, floor(p/10 * 0.6) = floor(6p / 100); the double
\* product is exact enough that both floors agree for every p.
slopDeduction(slopPenalty) ==
  IF slopPenalty.penaltyTenths > 0
  THEN min(5, (slopPenalty.penaltyTenths * 6) \div 100)
  ELSE 0

emptyResult ==
  [score |-> 0, maxScore |-> 25, issues |-> <<"No content to validate">>, strengths |-> <<>>]

emptyValidation_sharedMax ==
  LET structure == emptyResult
      clarity == emptyResult
      testability == emptyResult
      completeness == emptyResult
  IN [ totalScore |-> 0, structure |-> structure, clarity |-> clarity,
       testability |-> testability, completeness |-> completeness,
       businessValue |-> testability,
       dimension1 |-> structure, dimension2 |-> clarity,
       dimension3 |-> testability, dimension4 |-> completeness ]

\* The object returned for absent or invalid input
emptyValidation ==
  LET structure == [emptyResult EXCEPT !.maxScore = 25]
      clarity == [emptyResult EXCEPT !.maxScore = 30]
      testability == [emptyResult EXCEPT !.maxScore = 25]
      completeness == [emptyResult EXCEPT !.maxScore = 20]
  IN [ totalScore |-> 0, structure |-> structure, clarity |-> clarity,
       testability |-> testability, completeness |-> completeness,
       businessValue |-> testability,
       dimension1 |-> structure, dimension2 |-> clarity,
       dimension3 |-> testability, dimension4 |-> completeness ]

totalOf_noFloor(structure, clarity, testability, completeness, deduction) ==
  structure.score + clarity.score + testability.score + completeness.score - deduction

totalOf_noDeduction(structure, clarity, testability, completeness, deduction) ==
  max(0, structure.score + clarity.score + testability.score + completeness.score)

\* Math.max(0, structure.score + ... + completeness.score - slopDeduction)
totalOf(structure, clarity, testability, completeness, deduction) ==
  max(0, structure.score + clarity.score + testability.score + completeness.score - deduction)

\* The four scorer calls that validateDocument makes after the guard
scoreDimensions(text, li) ==
  [ structure |-> scoreStructure(text, li), clarity |-> scoreClarity(text),
    testability |-> scoreTestability(text, li),
    completeness |-> scoreCompleteness(text, li) ]

\* scoreDimensions of every document validateDocument is given, for objects
\* as the module load leaves them, computed once: the scorers read nothing
\* but text and lastIndex, so such a call returns what the table holds.
Scored == [d \in ValidateDocs |-> scoreDimensions(d, ZeroIndex)]

dimensionsOf(text, li) ==
  IF li = ZeroIndex THEN Scored[text] ELSE scoreDimensions(text, li)

\* The result object validateDocument builds from the four dimension
\* results and the slop penalty
buildResult(dims, slopPenalty, deduction, slopIssues) ==
  Returned(
    [ totalScore |-> totalOf(dims.structure, dims.clarity, dims.testability,
                             dims.completeness, deduction),
      structure |-> dims.structure, clarity |-> dims.clarity,
      testability |-> dims.testability, completeness |-> dims.completeness,
      businessValue |-> dims.testability,
      dimension1 |-> dims.structure, dimension2 |-> dims.clarity,
      dimension3 |-> dims.testability, dimension4 |-> dims.completeness,
      slopDetection |-> [ penaltyTenths |-> slopPenalty.penaltyTenths,
                          deduction |-> deduction, issues |-> slopIssues ] ],
    dims.structure.calls \o dims.clarity.calls \o dims.testability.calls
      \o dims.completeness.calls \o <<"getSlopPenalty">>)

\* ...slopPenalty.issues.slice(0, 2) under `penalty > 0 && issues.length > 0`
slopIssuesOf(slopPenalty) ==
  IF slopPenalty.penaltyTenths > 0 /\ Len(slopPenalty.issues) > 0
  THEN slice0(slopPenalty.issues, 2) ELSE <<>>

\* The part of validateDocument after the guard
validateString(text, li, slopPenalty) ==
  buildResult(dimensionsOf(text, li), slopPenalty, slopDeduction(slopPenalty),
              slopIssuesOf(slopPenalty))

validateDocument_falsyOnly(text, li, slopPenalty) ==
  IF falsy(text)
  THEN Returned(emptyValidation, <<>>)
  ELSE IF typeof(text) # "string"
  THEN Thrown(<<"scoreStructure", "detectStructure">>)
  ELSE validateString(text.str, li, slopPenalty)

validateDocument_guardLast(text, li, slopPenalty) ==
  IF typeof(text) # "string"
  THEN Thrown(<<"scoreStructure", "detectStructure">>)
  ELSE LET r == validateString(text.str, li, slopPenalty)
       IN IF falsy(text) THEN Returned(emptyValidation, r.calls) ELSE r

validateDocument(text, li, slopPenalty) ==
  IF falsy(text) \/ typeof(text) # "string"
  THEN Returned(emptyValidation, <<>>)
  ELSE validateString(text.str, li, slopPenalty)

(***************************************************************************)
(* The Assistant's wrapper (assistant/js/validator-inline.js).             *)
(***************************************************************************)
RECURSIVE trimStart(_)
trimStart(s) ==
  IF CharAt(s, 1) \in Spaces THEN trimStart(SubSeq(s, 2, Len(s))) ELSE s

RECURSIVE trimEnd(_)
trimEnd(s) ==
  IF CharAt(s, Len(s)) \in Spaces THEN trimEnd(SubSeq(s, 1, Len(s) - 1)) ELSE s

\* String.prototype.trim
trim(s) == trimEnd(trimStart(s))

\* { score: 0, maxScore, issues: ['No content to validate'] }
assistantEmptyResult(maxScore) ==
  [score |-> 0, maxScore |-> maxScore, issues |-> <<"No content to validate">>]

\* The object the wrapper returns for absent, invalid or short input
assistantEmptyValidation ==
  [ totalScore |-> 0, structure |-> assistantEmptyResult(25),
    clarity |-> assistantEmptyResult(30), businessValue |-> assistantEmptyResult(25),
    completeness |-> assistantEmptyResult(20) ]

assistantRejects_noTrim(text) ==
  falsy(text) \/ typeof(text) # "string" \/ Len(text.str) < 50

\* The wrapper's guard
assistantRejects(text) ==
  falsy(text) \/ typeof(text) # "string" \/ Len(trim(text.str)) < 50

\* The fields the wrapper copies from the full validator's result
assistantView(result) ==
  Returned([ totalScore |-> result.value.totalScore,
             structure |-> result.value.structure,
             clarity |-> result.value.clarity,
             businessValue |-> result.value.businessValue,
             completeness |-> result.value.completeness,
             slopDetection |-> result.value.slopDetection ],
           <<"validateDocumentFull">> \o result.calls)

\* validateDocument of the wrapper
assistantValidateDocument(text, li, slopPenalty) ==
  IF assistantRejects(text)
  THEN Returned(assistantEmptyValidation, <<>>)
  ELSE assistantView(validateDocument(text, li, slopPenalty))

(***************************************************************************)
(* The shared inline validator (shared/js/validator-inline.js).  Its       *)
(* detectors run patterns of their own; a text is given here by what they  *)
(* report on it.  Of the lists of the scorers only completeness.issues is  *)
(* kept, the one list validateDocument adds to.                            *)
(***************************************************************************)
SharedDetections ==
  [ hasSummary : BOOLEAN, hasAcceptanceCriteria : BOOLEAN, hasOutOfScope : BOOLEAN,
    checkboxCount : {0, 1, 3, MaxBoxes}, actionVerbCount : {0, MaxVerbs},
    vagueTermCount : {0, 1, MaxVague}, hasUserStory : BOOLEAN,
    hasErrorCases : BOOLEAN, hasEdgeCases : BOOLEAN ]

\* A string on which the shared detectors report d.  Its metrics come with
\* its verbs, its Gherkin and compound lines with its user-story line.
SharedText(d) == [type |-> "string", str |-> "text", num |-> 0, detection |-> d]

sharedScoreStructure(d) ==
  [ score |-> min((IF d.hasSummary THEN 10 ELSE 0)
                  + (IF d.checkboxCount > 0 /\ d.checkboxCount >= 3 THEN 10
                     ELSE IF d.checkboxCount > 0 THEN 5 ELSE 0)
                  + (IF d.hasOutOfScope THEN 5 ELSE 0), 25),
    maxScore |-> 25 ]

\* metricsCount is actionVerbCount in the texts of the model
sharedScoreClarity(d) ==
  [ score |-> min((IF d.actionVerbCount >= 5 THEN 15 ELSE IF d.actionVerbCount >= 3 THEN 10
                   ELSE IF d.actionVerbCount >= 1 THEN 5 ELSE 0)
                  + (IF d.actionVerbCount >= 3 THEN 15
                     ELSE IF d.actionVerbCount >= 1 THEN 8 ELSE 0), 30),
    maxScore |-> 30 ]

\* hasGherkin and hasCompound are hasUserStory in the texts of the model
sharedScoreTestability(d) ==
  [ score |-> max(0, min(25 - (IF d.vagueTermCount = 0 THEN 0
                               ELSE min(15, d.vagueTermCount * 3))
                            - (IF d.hasUserStory THEN 5 ELSE 0)
                            - (IF d.hasUserStory THEN 5 ELSE 0)
                            - (IF d.hasUserStory THEN 3 ELSE 0), 25)),
    maxScore |-> 25 ]

\* sections.found of the shared detectSections, as weights
sharedSectionScore(d) ==
  (IF d.hasSummary THEN 3 ELSE 0) + (IF d.hasAcceptanceCriteria THEN 4 ELSE 0)
    + (IF d.hasOutOfScope THEN 2 ELSE 0)

\* sectionPercentage >= 0.9 and >= 0.5 of the total weight 9
sharedScoreCompleteness(d) ==
  LET count == IF d.checkboxCount >= 3 /\ d.checkboxCount <= 7 THEN Check(8, <<>>, <<>>)
               ELSE IF d.checkboxCount > 7
               THEN Check(4, <<ToString(d.checkboxCount)
                               \o " criteria - consider splitting issue (aim for 3-7)">>, <<>>)
               ELSE IF d.checkboxCount > 0
               THEN Check(4, <<"Only " \o ToString(d.checkboxCount)
                               \o " criteria - add more for completeness">>, <<>>)
               ELSE Check(0, <<"No checkbox criteria found">>, <<>>)
      cases == IF d.hasErrorCases /\ d.hasEdgeCases THEN Check(6, <<>>, <<>>)
               ELSE IF d.hasErrorCases \/ d.hasEdgeCases
               THEN Check(3, <<IF d.hasErrorCases THEN "Add edge case criteria"
                               ELSE "Add error case criteria">>, <<>>)
               ELSE Check(0, <<"Missing error/edge case criteria">>, <<>>)
      sections == IF 10 * sharedSectionScore(d) >= 9 * 9 THEN Check(6, <<>>, <<>>)
                  ELSE IF 10 * sharedSectionScore(d) >= 5 * 9
                  THEN Check(3, <<"Missing sections">>, <<>>)
                  ELSE Check(0, <<"Only some sections">>, <<>>)
  IN [ score |-> min(sumPoints(<<count, cases, sections>>), 20), maxScore |-> 20,
       issues |-> allIssues(<<count, cases, sections>>) ]

sharedAdjustedCompleteness_noFloor(completeness, deduction) ==
  [ completeness EXCEPT
      !.score = completeness.score - deduction,
      !.issues = IF deduction > 0
                 THEN Append(@, "AI patterns detected (-" \o ToString(deduction) \o ")")
                 ELSE @ ]

\* Include slop deduction in completeness category so categories sum to total
sharedAdjustedCompleteness(completeness, deduction) ==
  [ completeness EXCEPT
      !.score = max(0, completeness.score - deduction),
      !.issues = IF deduction > 0
                 THEN Append(@, "AI patterns detected (-" \o ToString(deduction) \o ")")
                 ELSE @ ]

\* The object the shared validateDocument builds for a valid text
sharedResult(structure, clarity, testability, adjustedCompleteness, slopPenalty, deduction) ==
  [ totalScore |-> max(0, structure.score + clarity.score + testability.score
                          + adjustedCompleteness.score),
    structure |-> structure, clarity |-> clarity, testability |-> testability,
    completeness |-> adjustedCompleteness,
    slopDetection |-> [ penaltyTenths |-> slopPenalty.penaltyTenths,
                        deduction |-> deduction, issues |-> slopIssuesOf(slopPenalty) ] ]

sharedEmptyValidation ==
  [ totalScore |-> 0, structure |-> [emptyResult EXCEPT !.maxScore = 25],
    clarity |-> [emptyResult EXCEPT !.maxScore = 30],
    testability |-> [emptyResult EXCEPT !.maxScore = 25],
    completeness |-> [emptyResult EXCEPT !.maxScore = 20] ]

\* validateDocument of the shared inline validator
sharedValidateDocument(text, slopPenalty) ==
  IF falsy(text) \/ typeof(text) # "string"
  THEN Returned(sharedEmptyValidation, <<>>)
  ELSE Returned(
         sharedResult(sharedScoreStructure(text.detection), sharedScoreClarity(text.detection),
                      sharedScoreTestability(text.detection),
                      sharedAdjustedCompleteness(sharedScoreCompleteness(text.detection),
                                                 slopDeduction(slopPenalty)),
                      slopPenalty, slopDeduction(slopPenalty)),
         <<"scoreStructure", "scoreClarity", "scoreTestability", "scoreCompleteness",
           "getSlopPenalty">>)

\* ToString of a value, as RegExp.prototype.test applies it to its argument
StringOf(v) ==
  IF v.type = "string" THEN v.str
  ELSE IF v.type = "number" THEN ToString(v.num)
  ELSE IF v = True THEN "true"
  ELSE IF v = False THEN "false"
  ELSE IF v = Obj THEN "[object Object]"
  ELSE v.type

(***************************************************************************)
(* Presentation helpers.                                                   *)
(***************************************************************************)
getGrade_exclusive(score) ==
  IF score > 90 THEN "A"
  ELSE IF score > 80 THEN "B"
  ELSE IF score > 70 THEN "C"
  ELSE IF score > 60 THEN "D"
  ELSE "F"

getGrade(score) ==
  IF score >= 90 THEN "A"
  ELSE IF score >= 80 THEN "B"
  ELSE IF score >= 70 THEN "C"
  ELSE IF score >= 60 THEN "D"
  ELSE "F"

getScoreLabel(score) ==
  IF score >= 80 THEN "Excellent"
  ELSE IF score >= 70 THEN "Ready"
  ELSE IF score >= 50 THEN "Needs Work"
  ELSE IF score >= 30 THEN "Draft"
  ELSE "Incomplete"

getScoreColor_inlineThresholds(score, maxScore) ==
  IF score * 100 >= 70 * maxScore THEN "text-green-400"
  ELSE IF score * 100 >= 50 * maxScore THEN "text-yellow-400"
  ELSE IF score * 100 >= 30 * maxScore THEN "text-orange-400"
  ELSE "text-red-400"

\* getScoreColor of validator.js.  percentage = (score / maxScore) * 100 is
\* compared as score * 100 >= 80 * maxScore; with maxScore 100 the double
\* (score / 100) * 100 is on the same side of 80, 60 and 40 as score.
getScoreColor(score, maxScore) ==
  IF score * 100 >= 80 * maxScore THEN "text-green-400"
  ELSE IF score * 100 >= 60 * maxScore THEN "text-yellow-400"
  ELSE IF score * 100 >= 40 * maxScore THEN "text-orange-400"
  ELSE "text-red-400"

\* getScoreColor of the inline validators
inlineGetScoreColor(score) ==
  IF score >= 70 THEN "green"
  ELSE IF score >= 50 THEN "yellow"
  ELSE IF score >= 30 THEN "orange"
  ELSE "red"

\* The totals validateDocument can return
Totals == 0..100

NotStrings == {Null, Undefined, Num(0), Num(42), Obj, True, False}

Strings(docs) == {Str(d) : d \in docs}

NoSlop == [penaltyTenths |-> 0, issues |-> <<>>]
NoOutcome == Returned(Undefined, <<>>)

InterleavedDocs ==
  { MixedDoc(TRUE, TRUE, 0, TRUE), MixedDoc(TRUE, FALSE, MaxVague, FALSE),
    MixedDoc(FALSE, FALSE, MaxVague, TRUE), "Hello world", "" }

InterleavedInputs == Strings(InterleavedDocs) \cup {Undefined, Num(42)}

\* getSlopPenalty results of the overlapping calls: none, or the largest
InterleavedSlop(text) ==
  { sp \in getSlopPenalty(text) :
      \/ sp = NoSlop
      \/ sp.penaltyTenths = MaxPenaltyTenths /\ Len(sp.issues) = MaxSlopIssues }

\* getSlopPenalty results of the shared validator's calls: no penalty, or
\* one that is floored to 0, to 1 or to the cap
SharedSlop ==
  { sp \in getSlopPenalty("text") :
      \/ sp = NoSlop
      \/ sp.penaltyTenths \in {10, 20, MaxPenaltyTenths} /\ Len(sp.issues) = MaxSlopIssues }

Callers == 1..MaxCallers

\* A caller with no validateDocument call under way
NotRunning ==
  [at |-> "idle", input |-> Undefined, dims |-> <<>>, slop |-> NoSlop, outcome |-> NoOutcome]

(***************************************************************************)
(* Array objects.  A JavaScript array is an object: two properties that    *)
(* hold the same array show every push made through either.  Each list of  *)
(* a validateDocument result is named here by the expression that created  *)
(* its array.                                                              *)
(***************************************************************************)
DimensionProperties ==
  {"structure", "clarity", "testability", "completeness", "businessValue",
   "dimension1", "dimension2", "dimension3", "dimension4"}

ListFields == {"issues", "strengths"}

\* The dimension record a property of the result refers to
recordOf(p) ==
  IF p \in {"structure", "dimension1"} THEN "structure"
  ELSE IF p \in {"clarity", "dimension2"} THEN "clarity"
  ELSE IF p \in {"testability", "businessValue", "dimension3"} THEN "testability"
  ELSE "completeness"

NoArrays == [field \in ListFields |-> <<>>]

\* { ...emptyResult, maxScore: n } copies the properties of emptyResult:
\* each of the four records holds the arrays emptyResult was built with
emptyArrays ==
  [field \in ListFields |-> [p \in DimensionProperties |-> "emptyResult." \o field]]

\* const issues = []; const strengths = []; in each of the four scorers
scorerArrays ==
  [field \in ListFields |->
     [p \in DimensionProperties |-> recordOf(p) \o "." \o field]]

\* The arrays of the object a call returns
allocated(name, v) ==
  IF name # "validateDocument" THEN NoArrays
  ELSE IF falsy(v) \/ typeof(v) # "string" THEN emptyArrays
  ELSE scorerArrays

\* array.push(item), seen through every property that holds the array
push(result, arrs, field, p, item) ==
  [q \in DOMAIN result |->
     IF q \in DimensionProperties /\ arrs[field][q] = arrs[field][p]
     THEN [result[q] EXCEPT ![field] = Append(@, item)]
     ELSE result[q]]

(***************************************************************************)
(* The state machine: one exported function is called at a time; the       *)
(* engine keeps nothing between calls.                                     *)
(***************************************************************************)
Init ==
  /\ pc = "idle"
  /\ op = "none"
  /\ input = Undefined
  /\ slop = NoSlop
  /\ outcome = NoOutcome
  /\ lastIndex = ZeroIndex
  /\ callCount = 0
  /\ running = [c \in Callers |-> NotRunning]
  /\ arrays = NoArrays

\* The module is between calls and the caller has calls left to make
Ready == pc = "idle" /\ callCount < MaxCalls

\* An exported function is called with v
Call(name, v) ==
  /\ callCount' = callCount + 1
  /\ pc' = "done"
  /\ op' = name
  /\ input' = v
  /\ arrays' = allocated(name, v)
  /\ UNCHANGED running

\* An exported scorer called directly: its detector reads text.match, which
\* throws a TypeError unless text is a string.
CallScorer(name, detector, v, result) ==
  /\ Call(name, v)
  /\ slop' = NoSlop
  /\ outcome' = IF typeof(v) # "string" THEN Thrown(<<name, detector>>)
                ELSE Returned(result, result.calls)

\* detectStructure tests sectionPattern before text.match throws
ScoreStructure ==
  /\ Ready
  /\ \E v \in Strings(StructureDocs \cup {""}) \cup NotStrings :
       /\ CallScorer("scoreStructure", "detectStructure", v, scoreStructure(v.str, lastIndex))
       /\ lastIndex' = IF typeof(v) # "string"
                       THEN tested({Structure("sectionPattern")}, StringOf(v), lastIndex)
                       ELSE tested(StructureTests, v.str, lastIndex)

ScoreClarity ==
  /\ Ready
  /\ \E v \in Strings(ClarityDocs \cup {""}) \cup NotStrings :
       /\ CallScorer("scoreClarity", "detectClarity", v, scoreClarity(v.str))
       /\ UNCHANGED lastIndex

ScoreTestability ==
  /\ Ready
  /\ \E v \in Strings(TestabilityDocs \cup {""}) \cup NotStrings :
       /\ CallScorer("scoreTestability", "detectTestability", v,
                     scoreTestability(v.str, lastIndex))
       /\ lastIndex' = IF typeof(v) # "string" THEN lastIndex
                       ELSE tested(TestabilityTests, v.str, lastIndex)

ScoreCompleteness ==
  /\ Ready
  /\ \E v \in Strings(CompletenessDocs \cup {""}) \cup NotStrings :
       /\ CallScorer("scoreCompleteness", "detectCompleteness", v,
                     scoreCompleteness(v.str, lastIndex))
       /\ lastIndex' = IF typeof(v) # "string" THEN lastIndex
                       ELSE tested(SectionTests, v.str, lastIndex)

\* detectTestability called directly: text.match comes first and throws a
\* TypeError unless text is a string.
DetectTestability ==
  /\ Ready
  /\ \E v \in Strings(GherkinDocs \cup {""}) \cup NotStrings :
       /\ Call("detectTestability", v)
       /\ slop' = NoSlop
       /\ outcome' = IF typeof(v) # "string" THEN Thrown(<<"detectTestability">>)
                     ELSE Returned(detectTestability(v.str, lastIndex), <<"detectTestability">>)
       /\ lastIndex' = IF typeof(v) # "string" THEN lastIndex
                       ELSE tested(TestabilityTests, v.str, lastIndex)

\* detectClarity called directly: text.match comes first and throws a
\* TypeError unless text is a string.
DetectClarity ==
  /\ Ready
  /\ \E v \in Strings(MetricDocs \cup {""}) \cup NotStrings :
       /\ Call("detectClarity", v)
       /\ slop' = NoSlop
       /\ outcome' = IF typeof(v) # "string" THEN Thrown(<<"detectClarity">>)
                     ELSE Returned(detectClarity(v.str), <<"detectClarity">>)
       /\ UNCHANGED lastIndex

\* detectSections called directly: it only hands text to RegExp.test,
\* which converts its argument to a string, so no value makes it throw.
DetectSections ==
  /\ Ready
  /\ \E v \in Strings(SectionDocs \cup {""}) \cup NotStrings :
       /\ Call("detectSections", v)
       /\ slop' = NoSlop
       /\ outcome' = Returned(detectSections(StringOf(v), lastIndex), <<"detectSections">>)
       /\ lastIndex' = tested(SectionTests, StringOf(v), lastIndex)

\* A presentation helper called with a total
CallHelper(name, score, result) ==
  /\ Call(name, Num(score))
  /\ slop' = NoSlop
  /\ outcome' = Returned(result, <<name>>)
  /\ UNCHANGED lastIndex

GetGrade ==
  /\ Ready
  /\ \E score \in Totals : CallHelper("getGrade", score, getGrade(score))

GetScoreLabel ==
  /\ Ready
  /\ \E score \in Totals : CallHelper("getScoreLabel", score, getScoreLabel(score))

\* getScoreColor(total): maxScore takes its default, 100
GetScoreColor ==
  /\ Ready
  /\ \E score \in Totals : CallHelper("getScoreColor", score, getScoreColor(score, 100))

InlineGetScoreColor ==
  /\ Ready
  /\ \E score \in Totals :
       CallHelper("inline.getScoreColor", score, inlineGetScoreColor(score))

\* validateDocument runs to completion: past the guard, the four scorers
\* test every object once.
ValidateDocument ==
  /\ Ready
  /\ \E v \in Strings(ValidateDocs) \cup NotStrings :
       \E sp \in getSlopPenalty(v.str) :
         /\ Call("validateDocument", v)
         /\ slop' = sp
         /\ outcome' = validateDocument(v, lastIndex, sp)
         /\ lastIndex' = IF falsy(v) \/ typeof(v) # "string" THEN lastIndex
                         ELSE tested(TestedRegExps, v.str, lastIndex)

\* The wrapper's validateDocument.  The wrapper imports scoreBusinessValue,
\* which validator.js does not export: a native ES module build refuses to
\* link the wrapper (a SyntaxError when it is loaded, before any call),
\* a build that compiles imports to property reads binds undefined to the
\* unused name, and the call goes through.
AssistantValidateDocument ==
  /\ Ready
  /\ \E linked \in BOOLEAN :
       \E v \in Strings(ValidateDocs) \cup NotStrings :
         \E sp \in InterleavedSlop(v.str) :
           /\ Call("assistant.validateDocument", v)
           /\ slop' = sp
           /\ outcome' = IF linked THEN assistantValidateDocument(v, lastIndex, sp)
                         ELSE Thrown(<<"import">>)
           /\ lastIndex' = IF linked /\ ~assistantRejects(v)
                           THEN tested(TestedRegExps, v.str, lastIndex)
                           ELSE lastIndex

\* The shared validator's validateDocument; its detectors test RegExp
\* objects of its own module.
SharedValidateDocument ==
  /\ Ready
  /\ \E v \in {SharedText(d) : d \in SharedDetections} \cup Strings({""}) \cup NotStrings :
       \E sp \in SharedSlop :
         /\ Call("shared.validateDocument", v)
         /\ slop' = sp
         /\ outcome' = sharedValidateDocument(v, sp)
         /\ UNCHANGED lastIndex

\* The caller is done with the result; the RegExp objects stay as they are.
Return ==
  /\ pc \in {"done", "pushed"}
  /\ pc' = "idle"
  /\ op' = "none"
  /\ input' = Undefined
  /\ slop' = NoSlop
  /\ outcome' = NoOutcome
  /\ arrays' = NoArrays
  /\ UNCHANGED <<lastIndex, callCount, running>>

\* The caller appends an item to a list of the result it was handed:
\* result.<property>.<field>.push(item).  Every property of the result whose
\* list is that array object shows the item.
Push ==
  /\ pc = "done"
  /\ op = "validateDocument"
  /\ ~outcome.threw
  /\ \E p \in DimensionProperties :
       \E field \in ListFields :
         outcome' = [outcome EXCEPT !.value = push(@, arrays, field, p, "noted by the caller")]
  /\ pc' = "pushed"
  /\ UNCHANGED <<op, input, slop, lastIndex, callCount, running, arrays>>

Next ==
  \/ ScoreStructure
  \/ ScoreClarity
  \/ ScoreTestability
  \/ ScoreCompleteness
  \/ DetectClarity
  \/ DetectSections
  \/ DetectTestability
  \/ GetGrade
  \/ GetScoreLabel
  \/ GetScoreColor
  \/ InlineGetScoreColor
  \/ ValidateDocument
  \/ AssistantValidateDocument
  \/ SharedValidateDocument
  \/ Push
  \/ Return

Spec == Init /\ [][Next]_vars

(***************************************************************************)
(* Overlapping validateDocument calls.  JavaScript runs a call to          *)
(* completion, so calls of one realm follow one another as in Spec.  Here  *)
(* each caller takes its call one scorer at a time and the callers'        *)
(* steps interleave freely over the same RegExp objects: every schedule    *)
(* the runtime can produce is among these.                                 *)
(***************************************************************************)
DimensionNames == <<"structure", "clarity", "testability", "completeness">>

\* const <name> = score<Name>(text), with the RegExp objects as they are
scorerCall(name, text, li) ==
  IF li = ZeroIndex THEN Scored[text][name]
  ELSE IF name = "structure" THEN scoreStructure(text, li)
  ELSE IF name = "clarity" THEN scoreClarity(text)
  ELSE IF name = "testability" THEN scoreTestability(text, li)
  ELSE scoreCompleteness(text, li)

\* The RegExp objects the scorer tests
scorerTests(name) ==
  IF name = "structure" THEN StructureTests
  ELSE IF name = "testability" THEN TestabilityTests
  ELSE IF name = "completeness" THEN SectionTests
  ELSE {}

\* validateDocument(v) is entered: the guard returns at once, or the call
\* goes on to the scorers
Begin(c) ==
  /\ running[c].at = "idle"
  /\ \E v \in InterleavedInputs :
       running' = [running EXCEPT ![c] =
         IF falsy(v) \/ typeof(v) # "string"
         THEN [NotRunning EXCEPT !.at = "done", !.input = v,
                                 !.outcome = Returned(emptyValidation, <<>>)]
         ELSE [NotRunning EXCEPT !.at = "structure", !.input = v]]
  /\ UNCHANGED <<pc, op, input, slop, outcome, lastIndex, callCount, arrays>>

\* One scorer call of caller c
Step(c, name, then) ==
  /\ running[c].at = name
  /\ running' = [running EXCEPT
       ![c].dims = Append(@, scorerCall(name, running[c].input.str, lastIndex)),
       ![c].at = then]
  /\ lastIndex' = tested(scorerTests(name), running[c].input.str, lastIndex)
  /\ UNCHANGED <<pc, op, input, slop, outcome, callCount, arrays>>

StepStructure(c) == Step(c, "structure", "clarity")

StepClarity(c) == Step(c, "clarity", "testability")

StepTestability(c) == Step(c, "testability", "completeness")

StepCompleteness(c) == Step(c, "completeness", "slop")

\* getSlopPenalty, the total, and the result object
Finish(c) ==
  /\ running[c].at = "slop"
  /\ \E sp \in InterleavedSlop(running[c].input.str) :
       running' = [running EXCEPT
         ![c].slop = sp,
         ![c].outcome =
           buildResult([k \in {"structure", "clarity", "testability", "completeness"} |->
                          running[c].dims[CHOOSE i \in 1..4 : DimensionNames[i] = k]],
                       sp, slopDeduction(sp), slopIssuesOf(sp)),
         ![c].at = "done"]
  /\ UNCHANGED <<pc, op, input, slop, outcome, lastIndex, callCount, arrays>>

\* The caller is done with the result and may call again
Retire(c) ==
  /\ running[c].at = "done"
  /\ running' = [running EXCEPT ![c] = NotRunning]
  /\ UNCHANGED <<pc, op, input, slop, outcome, lastIndex, callCount, arrays>>

NextInterleaved ==
  \E c \in Callers :
    \/ Begin(c)
    \/ StepStructure(c)
    \/ StepClarity(c)
    \/ StepTestability(c)
    \/ StepCompleteness(c)
    \/ Finish(c)
    \/ Retire(c)

SpecInterleaved == Init /\ [][NextInterleaved]_vars

(***************************************************************************)
(* Properties.                                                             *)
(***************************************************************************)
Dimensions == {"structure", "clarity", "testability", "completeness"}

Validated == pc = "done" /\ op = "validateDocument"
\* validateDocument got past its guard
ValidatedText == Validated /\ input.type = "string" /\ input.str # ""
\* validateDocument was given absent or invalid input
ValidatedInvalid == Validated /\ (input.type # "string" \/ input.str = "")
Scored1(name) == pc = "done" /\ op = name /\ ~outcome.threw

Contains(s, sub) ==
  \E i \in 1..(Len(s) - Len(sub) + 1) : SubSeq(s, i, i + Len(sub) - 1) = sub

HasIssue(rec, sub) == \E k \in 1..Len(rec.issues) : Contains(rec.issues[k], sub)

SumOfScores(r) ==
  r.structure.score + r.clarity.score + r.testability.score + r.completeness.score

\* C1: whatever validateDocument is given, it returns a totalScore in 0..100
\* and, for every dimension, a score in 0..maxScore.
C1_ScoresInRange ==
  Validated =>
    /\ ~outcome.threw
    /\ outcome.value.totalScore \in 0..100
    /\ \A d \in Dimensions :
         outcome.value[d].score \in 0..outcome.value[d].maxScore

\* A document whose testability deductions exceed 25 and whose slop deduction
\* exceeds the sum of its dimension scores: both floors are in use.
C1_Witness ==
  /\ ValidatedText
  /\ outcome.value.totalScore = 0
  /\ outcome.value.testability.score = 0
  /\ Len(outcome.value.testability.issues) = 5
  /\ outcome.value.slopDetection.deduction > SumOfScores(outcome.value)

\* C2: for a non-empty string, totalScore is the sum of the four reported
\* scores minus the reported slop deduction, clamped to 0..100, and never
\* exceeds the sum of the four reported scores.
C2_TotalIsClampedSum ==
  ValidatedText =>
    LET r == outcome.value
        x == SumOfScores(r) - r.slopDetection.deduction
    IN /\ r.totalScore = IF x < 0 THEN 0 ELSE IF x > 100 THEN 100 ELSE x
       /\ r.totalScore <= SumOfScores(r)

C2_Witness ==
  /\ ValidatedText
  /\ outcome.value.slopDetection.deduction = 3
  /\ SumOfScores(outcome.value) = 100
  /\ outcome.value.totalScore = 97

\* C3: the deduction d is the integer min(5, floor(0.6 * penalty)): it lies
\* in 0..5, is 0 for penalty 0, satisfies d <= 0.6 * penalty < d + 1 below
\* the cap and 0.6 * penalty >= 5 at the cap (penalty = penaltyTenths / 10).
C3_DeductionFormula ==
  ValidatedText =>
    LET p == slop.penaltyTenths
        d == outcome.value.slopDetection.deduction
    IN /\ d \in 0..5
       /\ p = 0 => d = 0
       /\ d < 5 => 100 * d <= 6 * p /\ 6 * p < 100 * (d + 1)
       /\ d = 5 => 6 * p >= 500

\* A penalty of 3.3 gives 0.6 * 3.3 = 1.98, floored to 1.
C3_Witness ==
  /\ ValidatedText
  /\ slop.penaltyTenths = 33
  /\ outcome.value.slopDetection.deduction = 1

\* C4: null, undefined, '' and every value that is not a string give
\* totalScore 0 and, in each dimension, score 0 with the issue
\* 'No content to validate'.
C4_InvalidInputAllZero ==
  ValidatedInvalid =>
    /\ ~outcome.threw
    /\ outcome.value.totalScore = 0
    /\ \A d \in Dimensions :
         /\ outcome.value[d].score = 0
         /\ \E k \in 1..Len(outcome.value[d].issues) :
              outcome.value[d].issues[k] = "No content to validate"

\* a truthy value that is not a string
C4_Witness ==
  /\ ValidatedInvalid
  /\ input = Num(42)
  /\ ~outcome.threw
  /\ outcome.value.totalScore = 0

\* C5: on absent or invalid input the call returns without having entered a
\* scorer, a detector or the slop detector, and without an exception.
C5_GuardFirst ==
  ValidatedInvalid => outcome.calls = <<>> /\ ~outcome.threw

\* the empty string: a value the detectors would accept without throwing
C5_Witness ==
  /\ ValidatedInvalid
  /\ input = Str("")
  /\ outcome.calls = <<>>
  /\ outcome.value.structure.score = 0

\* C6: every result, the all-zero one included, reports maxScore 25, 30, 25
\* and 20 for structure, clarity, testability and completeness (sum 100).
C6_MaxScores ==
  (Validated /\ ~outcome.threw) =>
    LET r == outcome.value
    IN /\ r.structure.maxScore = 25
       /\ r.clarity.maxScore = 30
       /\ r.testability.maxScore = 25
       /\ r.completeness.maxScore = 20
       /\ r.structure.maxScore + r.clarity.maxScore
            + r.testability.maxScore + r.completeness.maxScore = 100

C6_Witness ==
  /\ ValidatedInvalid
  /\ input = Undefined
  /\ outcome.value.clarity.maxScore = 30
  /\ outcome.value.completeness.maxScore = 20

StructureRule(rec) ==
  LET d == rec.detection
  IN rec.score = (IF d.hasSummary THEN 10 ELSE 0)
               + (IF d.checkboxCount >= 3 THEN 10
                  ELSE IF d.checkboxCount \in {1, 2} THEN 5 ELSE 0)
               + (IF d.hasOutOfScope THEN 5 ELSE 0)

ClarityRule(rec) ==
  LET d == rec.detection
  IN rec.score = (IF d.actionVerbCount >= 5 THEN 15
                  ELSE IF d.actionVerbCount \in {3, 4} THEN 10
                  ELSE IF d.actionVerbCount \in {1, 2} THEN 5 ELSE 0)
               + (IF d.metricsCount >= 3 THEN 15
                  ELSE IF d.metricsCount \in {1, 2} THEN 8 ELSE 0)

\* C8: scoreClarity gives 15/10/5/0 for 5+/3-4/1-2/0 action verbs plus 15/8/0
\* for 3+/1-2/0 metrics, whether or not a threshold phrase is present.
C8_ClarityScore ==
  /\ Scored1("scoreClarity") => ClarityRule(outcome.value)
  /\ ValidatedText => ClarityRule(outcome.value.clarity)

\* a threshold phrase next to four verbs and two metrics: 10 + 8
C8_Witness ==
  /\ Scored1("scoreClarity")
  /\ outcome.value.detection.hasThresholds
  /\ outcome.value.detection.actionVerbCount = 4
  /\ outcome.value.detection.metricsCount = 2
  /\ outcome.value.score = 18

TestabilityRule(rec) ==
  LET d == rec.detection
      deduction == (IF d.vagueTermCount = 0 THEN 0
                    ELSE IF d.vagueTermCount \in {1, 2} THEN 5 ELSE 15)
                 + (IF d.hasUserStoryAntiPattern THEN 5 ELSE 0)
                 + (IF d.hasGherkinAntiPattern THEN 5 ELSE 0)
                 + (IF d.hasCompoundCriteria THEN 3 ELSE 0)
                 + (IF d.hasImplementationDetails THEN 5 ELSE 0)
  IN /\ rec.score = (IF 25 - deduction > 0 THEN 25 - deduction ELSE 0)
     /\ rec.score >= 0

FoundWeight(rec) == sumWeights(rec.sections.found)

CasesPoints(d) ==
  IF d.hasErrorCases /\ d.hasEdgeCases THEN 6
  ELSE IF d.hasErrorCases \/ d.hasEdgeCases THEN 3 ELSE 0

\* 90% and 60% of the total weight 9 are 8.1 and 5.4
SectionPoints(rec) ==
  IF 10 * FoundWeight(rec) >= 81 THEN 6
  ELSE IF 10 * FoundWeight(rec) >= 54 THEN 3 ELSE 0

CompletenessRule(rec) ==
  LET d == rec.detection
      countPoints == IF d.criterionCount >= 3 /\ d.criterionCount <= 7 THEN 8
                     ELSE IF d.criterionCount \in {1, 2} \/ d.criterionCount > 7 THEN 4
                     ELSE 0
  IN /\ rec.score = countPoints + CasesPoints(d) + SectionPoints(rec)
     /\ d.criterionCount > 7 =>
          /\ HasIssue(rec, "Too many criteria")
          /\ rec.score - CasesPoints(d) - SectionPoints(rec) = 4

DetectedSections == pc = "done" /\ op = "detectSections"

Found(sections, name) == \E k \in 1..Len(sections.found) : sections.found[k].name = name

RECURSIVE TitleFrom(_, _)
TitleFrom(ws, k) ==
  IF k > Len(ws) THEN <<>>
  ELSE (IF k = 1 THEN <<>> ELSE <<S1>>) \o <<Lit(ws[k])>> \o TitleFrom(ws, k + 1)

\* ^(#+\s*)?title: the title at the start of a line, markers optional
HeadingLine(ws) == Cat(<<Bol, Opt(Cat(<<Plus(Lit("#")), S0>>))>> \o TitleFrom(ws, 1))

SectionTitles == <<<<"summary">>, <<"acceptance", "criteria">>, <<"out", "of", "scope">>>>

\* C11: a required heading at the start of a line, with or without leading
\* '#' markers, is reported as found by detectSections.
C11_PlainHeadingDetected ==
  DetectedSections =>
    \A k \in 1..Len(REQUIRED_SECTIONS) :
      test(HeadingLine(SectionTitles[k]), StringOf(input))
        => Found(outcome.value, REQUIRED_SECTIONS[k].name)

DetectedTestability == pc = "done" /\ op = "detectTestability" /\ ~outcome.threw

RECURSIVE SkipSpaces(_, _)
\* the first position at or after i that holds no white space
SkipSpaces(s, i) == IF CharAt(s, i) \in Spaces THEN SkipSpaces(s, i + 1) ELSE i

\* the position after a checkbox marker "-[ ]", "- [x]", ... at i, or i itself
AfterMarker(s, i) ==
  IF CharAt(s, i) # "-" THEN i
  ELSE LET a == SkipSpaces(s, i + 1)
           b == SkipSpaces(s, a + 1)
           c == IF CharAt(s, b) = "x" THEN SkipSpaces(s, b + 1) ELSE b
       IN IF CharAt(s, a) = "[" /\ CharAt(s, c) = "]" THEN c + 1 ELSE i

\* a Gherkin keyword followed by white space at position i
KeywordAt(s, i) ==
  \E w \in {"given", "when", "then"} :
    /\ SubSeq(s, i, min(Len(s), i + Len(w) - 1)) = w
    /\ CharAt(s, i + Len(w)) \in Spaces

\* some line of s begins, after optional white space and an optional
\* checkbox marker, with a Gherkin keyword followed by white space
LineBeginsWithKeyword(s) ==
  \E i \in 1..Len(s) :
    /\ i = 1 \/ CharAt(s, i - 1) = "\n"
    /\ KeywordAt(s, SkipSpaces(s, AfterMarker(s, SkipSpaces(s, i))))

DetectedClarity == pc = "done" /\ op = "detectClarity" /\ ~outcome.threw

\* the listed units that are words; the remaining listed unit is the sign %
UnitWords ==
  <<"ms", "millisecond", "milliseconds", "second", "seconds", "s", "percent",
    "kb", "mb", "gb", "tb", "px", "item", "items", "user", "users", "request",
    "requests", "error", "errors", "day", "days", "hour", "hours", "minute",
    "minutes", "call", "calls", "connection", "connections", "record", "records",
    "retrie", "retries", "attempt", "attempts", "row", "rows", "entrie", "entries",
    "result", "results", "page", "pages", "click", "clicks", "tap", "taps",
    "event", "events">>

\* a number, optional white space, and a listed unit that is the whole word
NumberWithUnit ==
  Cat(<<Plus(Set(Digits)), Opt(Cat(<<Lit("."), Plus(Set(Digits))>>)), S0,
        Alt(<<Lit("%"), Cat(<<Words(UnitWords), WB>>)>>)>>)

\* C13: metricsCount counts the numbers that are followed by a listed unit;
\* a number followed by nothing or by a word that is not a listed unit adds
\* nothing.
C13_MetricsNeedListedUnit ==
  DetectedClarity =>
    outcome.value.metricsCount = Len(match(NumberWithUnit, input.str))

\* the number of places of s at which sub occurs
CountSub(s, sub) ==
  Cardinality({i \in 1..Len(s) : i + Len(sub) - 1 <= Len(s)
                                  /\ SubSeq(s, i, i + Len(sub) - 1) = sub})

\* the vague terms the testability documents are written with
VagueWords == {"fast", "works correctly"}

OtherDeductions(d) ==
    (IF d.hasUserStoryAntiPattern THEN 5 ELSE 0)
  + (IF d.hasGherkinAntiPattern THEN 5 ELSE 0)
  + (IF d.hasCompoundCriteria THEN 3 ELSE 0)
  + (IF d.hasImplementationDetails THEN 5 ELSE 0)

\* C14: the vague-term deduction of scoreTestability follows the number of
\* occurrences (0, 5 for one or two, 15 for three or more, repeats counted),
\* while vagueTerms lists each distinct lowercased term once.
C14_RawCountDrivesTier ==
  Scored1("scoreTestability") =>
    LET s == toLowerCase(input.str)
        d == outcome.value.detection
        raw == CountSub(s, "fast") + CountSub(s, "works correctly")
        tier == IF raw = 0 THEN 0 ELSE IF raw <= 2 THEN 5 ELSE 15
    IN /\ d.vagueTermCount = raw
       /\ outcome.value.score = max(0, 25 - tier - OtherDeductions(d))
       /\ {d.vagueTerms[k] : k \in 1..Len(d.vagueTerms)}
            = {w \in VagueWords : CountSub(s, w) > 0}
       /\ \A j, k \in 1..Len(d.vagueTerms) : d.vagueTerms[j] = d.vagueTerms[k] => j = k

\* three occurrences of two distinct terms ("fast" twice): 15, not 5
C14_Witness ==
  /\ Scored1("scoreTestability")
  /\ outcome.value.detection.vagueTermCount = 3
  /\ outcome.value.detection.vagueTerms = <<"fast", "works correctly">>
  /\ OtherDeductions(outcome.value.detection) = 0
  /\ outcome.value.score = 10

Helped(name) == pc = "done" /\ op = name

GradeTiers ==
  { <<"A", 90, 100>>, <<"B", 80, 89>>, <<"C", 70, 79>>, <<"D", 60, 69>>, <<"F", 0, 59>> }

LabelTiers ==
  { <<"Excellent", 80, 100>>, <<"Ready", 70, 79>>, <<"Needs Work", 50, 69>>,
    <<"Draft", 30, 49>>, <<"Incomplete", 0, 29>> }

\* the total lies in exactly one tier, and the helper returned that tier's name
InOneTier(tiers) ==
  /\ Cardinality({t \in tiers : input.num \in t[2]..t[3]}) = 1
  /\ \A t \in tiers : (outcome.value = t[1]) <=> (input.num \in t[2]..t[3])

ColorTier(value) == CHOOSE c \in {"green", "yellow", "orange", "red"} : Contains(value, c)

TierFrom(total, green, yellow, orange) ==
  IF total >= green THEN "green"
  ELSE IF total >= yellow THEN "yellow"
  ELSE IF total >= orange THEN "orange"
  ELSE "red"

\* C16 as stated: every getScoreColor gives green from 70, yellow for
\* 50..69, orange for 30..49 and red below 30.
C16_ColorTiersAsStated ==
  (Helped("getScoreColor") \/ Helped("inline.getScoreColor")) =>
    ColorTier(outcome.value) = TierFrom(input.num, 70, 50, 30)

\* C16 amended: getScoreColor of the inline validators gives green from 70,
\* yellow for 50..69, orange for 30..49 and red below 30; getScoreColor of
\* validator.js gives green from 80, yellow for 60..79, orange for 40..59
\* and red below 40.
C16_ColorTiers ==
  /\ Helped("inline.getScoreColor") =>
       ColorTier(outcome.value) = TierFrom(input.num, 70, 50, 30)
  /\ Helped("getScoreColor") =>
       ColorTier(outcome.value) = TierFrom(input.num, 80, 60, 40)

\* a total the two functions colour differently
C16_Witness ==
  /\ Helped("getScoreColor")
  /\ input.num = 75
  /\ outcome.value = "text-yellow-400"

\* C17: a validateDocument call returns what the first call of a freshly
\* loaded module returns for the same text (and the same slop penalty),
\* whatever calls came before it: two calls on one text return equal
\* results, and no call leaves a lastIndex behind for a later one to read.
C17_Deterministic ==
  /\ Validated => outcome = validateDocument(input, ZeroIndex, slop)
  /\ lastIndex = ZeroIndex

\* a second call, on a text in which compoundPattern and the section
\* patterns have matched before
C17_Witness ==
  /\ ValidatedText
  /\ callCount = 2
  /\ outcome.value.testability.detection.hasCompoundCriteria
  /\ outcome.value.structure.detection.hasSummary
  /\ outcome = validateDocument(input, ZeroIndex, slop)

(***************************************************************************)
(* C18: any interleaving of validateDocument calls, on the same or on      *)
(* different texts, gives each call what it returns when run alone: every  *)
(* dimension result a call has so far, and the result it returns, are      *)
(* those of RegExp objects no other call has touched.                      *)
(***************************************************************************)
InFlight(c) == running[c].at \notin {"idle", "done"}

\* what the k-th scorer returns for caller c's text when the call runs alone
Alone(c, k) == Scored[running[c].input.str][DimensionNames[k]]

C18_InterleavingSafe ==
  \A c \in Callers :
    /\ \A k \in 1..Len(running[c].dims) : running[c].dims[k] = Alone(c, k)
    /\ running[c].at = "done" =>
         running[c].outcome = validateDocument(running[c].input, ZeroIndex, running[c].slop)

\* two calls under way at once on different texts with headings, one past
\* the section tests of scoreStructure and the other past detectSections
C18_Witness ==
  /\ running[1].at = "testability"
  /\ running[2].at = "slop"
  /\ running[1].input # running[2].input
  /\ running[1].dims[1].detection.hasSummary
  /\ Len(running[2].dims[4].issues) = 0
  /\ running[2].dims[4] = Alone(2, 4)

(***************************************************************************)
(* C19: whenever the Assistant's wrapper returns, its totalScore and its   *)
(* structure, clarity and completeness scores are those the full validator *)
(* returns for the same input.                                             *)
(***************************************************************************)
AssistantValidated == pc = "done" /\ op = "assistant.validateDocument" /\ ~outcome.threw

SameScores(a, b) ==
  /\ a.totalScore = b.totalScore
  /\ a.structure.score = b.structure.score
  /\ a.clarity.score = b.clarity.score
  /\ a.completeness.score = b.completeness.score

C19_AssistantScoresAsValidator ==
  AssistantValidated =>
    SameScores(outcome.value, validateDocument(input, ZeroIndex, slop).value)

(***************************************************************************)
(* C20: scoreTestability records the strength 'All criteria are binary     *)
(* verifiable' exactly when the text is clean.                             *)
(***************************************************************************)
BinaryVerifiable(rec) ==
  \E k \in 1..Len(rec.strengths) : rec.strengths[k] = "All criteria are binary verifiable"

NoVagueNoCompound(d) == d.vagueTermCount = 0 /\ ~d.hasCompoundCriteria

NoAntiPattern(d) ==
  /\ ~d.hasUserStoryAntiPattern
  /\ ~d.hasGherkinAntiPattern
  /\ ~d.hasImplementationDetails

\* C20 as stated: the strength is recorded exactly when the text has no
\* vague terms and no compound criteria, whatever the user-story, Gherkin
\* and implementation-detail flags are.
C20_CleanStrengthAsStated ==
  Scored1("scoreTestability") =>
    (BinaryVerifiable(outcome.value) <=> NoVagueNoCompound(outcome.value.detection))

\* C20, amended: the strength is recorded exactly when the text has no
\* vague terms, no compound criteria, no user-story syntax, no Gherkin
\* syntax and no implementation details.
C20_CleanStrength ==
  Scored1("scoreTestability") =>
    (BinaryVerifiable(outcome.value) <=>
       NoVagueNoCompound(outcome.value.detection) /\ NoAntiPattern(outcome.value.detection))

\* a text with neither vague terms nor compound criteria that yet goes
\* without the strength, for its Gherkin syntax alone
C20_Witness ==
  /\ Scored1("scoreTestability")
  /\ input.type = "string"
  /\ NoVagueNoCompound(outcome.value.detection)
  /\ Contains(input.str, "- [ ] ok")
  /\ outcome.value.detection.hasGherkinAntiPattern
  /\ ~outcome.value.detection.hasUserStoryAntiPattern
  /\ ~outcome.value.detection.hasImplementationDetails
  /\ ~BinaryVerifiable(outcome.value)

(***************************************************************************)
(* C21: the section-completeness points of scoreCompleteness are those of  *)
(* the rubric in generateLLMScoringPrompt: 6 when all three required       *)
(* sections are present, 3 when exactly two are, whichever two.            *)
(***************************************************************************)
CountPoints(d) ==
  IF d.criterionCount >= 3 /\ d.criterionCount <= 7 THEN 8
  ELSE IF d.criterionCount > 0 THEN 4 ELSE 0

\* what scoreCompleteness gave for the sections: the score less the other
\* two sub-scores (the three sum to 20 at most, so the cap takes nothing)
SectionAward(rec) == rec.score - CountPoints(rec.detection) - CasesPoints(rec.detection)

C21_SectionPointsAsPrompt ==
  Scored1("scoreCompleteness") =>
    /\ Len(outcome.value.sections.found) = 3 => SectionAward(outcome.value) = 6
    /\ Len(outcome.value.sections.found) = 2 => SectionAward(outcome.value) = 3

(***************************************************************************)
(* C22: the tiers of the vague-term deduction of scoreTestability.         *)
(***************************************************************************)
ScoreWithVagueDeduction(rec, tier) ==
  rec.score = max(0, 25 - tier - OtherDeductions(rec.detection))

Places == {"top", "bottom"}

AddLines(text, lines, place) == IF place = "top" THEN lines \o text ELSE text \o lines

WithSummary(text, place) == AddLines(text, "# Summary\n", place)

WithCheckboxes(text, n, place) == AddLines(text, cycle(<<"- [ ] ok\n", "- [x] ok\n">>, 1, n), place)

WithOutOfScope(text, place) == AddLines(text, "## Out of Scope\n", place)

StructureScore(text) == scoreStructure(text, ZeroIndex).score

BareStructure(d) == ~d.hasSummary /\ d.checkboxCount = 0 /\ ~d.hasOutOfScope

\* the scores along Summary, then n checkboxes, then Out of Scope
Increments(text, n, p1, p2, p3) ==
  /\ StructureScore(WithSummary(text, p1)) = 10
  /\ StructureScore(WithCheckboxes(WithSummary(text, p1), n, p2)) = 20
  /\ StructureScore(WithOutOfScope(WithCheckboxes(WithSummary(text, p1), n, p2), p3)) = 25

C24_SlopDeductionRange ==
  ValidatedText /\ slop.penaltyTenths > 0 =>
    /\ outcome.value.slopDetection.deduction \in 1..5
    /\ outcome.value.totalScore =
         max(0, SumOfScores(outcome.value) - outcome.value.slopDetection.deduction)

(***************************************************************************)
(* C25: in a build that links the Assistant's wrapper, its                 *)
(* validateDocument returns the all-zero 'No content to validate' result   *)
(* exactly when the input is falsy, not a string, or of trimmed length     *)
(* below 50; every other input goes to the full validator unchanged and    *)
(* the totalScore of the full validator is returned as it is.              *)
(***************************************************************************)
Ink(s) == {i \in 1..Len(s) : CharAt(s, i) \notin Spaces}

\* the length of s without the white space at its two ends
TrimmedLength(s) ==
  IF Ink(s) = {} THEN 0
  ELSE (CHOOSE i \in Ink(s) : \A j \in Ink(s) : j <= i)
       - (CHOOSE i \in Ink(s) : \A j \in Ink(s) : i <= j) + 1

NoContent(rec) == rec.score = 0 /\ rec.issues = <<"No content to validate">>

AllZero(v) ==
  /\ v.totalScore = 0
  /\ NoContent(v.structure) /\ NoContent(v.clarity)
  /\ NoContent(v.businessValue) /\ NoContent(v.completeness)

SharedValidated ==
  pc = "done" /\ op = "shared.validateDocument" /\ input.type = "string" /\ input.str # ""

C26_SharedCategoriesSumToTotal ==
  SharedValidated =>
    /\ outcome.value.totalScore = SumOfScores(outcome.value)
    /\ outcome.value.completeness.score >= 0
    /\ outcome.value.completeness.score
         = max(0, sharedScoreCompleteness(input.detection).score
                    - outcome.value.slopDetection.deduction)

\* a deduction of 5 on a completeness score of 3: 0 is reported, and the
\* total is the sum of what is reported
C26_Witness ==
  /\ SharedValidated
  /\ outcome.value.slopDetection.deduction = 5
  /\ sharedScoreCompleteness(input.detection).score = 3
  /\ outcome.value.completeness.score = 0
  /\ outcome.value.totalScore > 0

(***************************************************************************)
(* C27: given the same four dimension scores before the deduction and the  *)
(* same slop penalty, the shared inline validator returns the totalScore   *)
(* the full validator returns.                                             *)
(***************************************************************************)
C27_SlopAppliedAlike ==
  SharedValidated =>
    outcome.value.totalScore
      = totalOf(outcome.value.structure, outcome.value.clarity, outcome.value.testability,
                sharedScoreCompleteness(input.detection), slopDeduction(slop))


(***************************************************************************)
(* C28.  As stated: each of scoreStructure, scoreClarity, scoreTestability *)
(* and scoreCompleteness returns score = maxScore exactly when its issues  *)
(* list is empty.                                                          *)
(***************************************************************************)
ScorerNames == {"scoreStructure", "scoreClarity", "scoreTestability", "scoreCompleteness"}

ScorerReturned == pc = "done" /\ op \in ScorerNames /\ ~outcome.threw

FullScore(rec) == rec.score = rec.maxScore

NoIssues(rec) == rec.issues = <<>>

C28_FullScoreIffNoIssuesAsStated ==
  ScorerReturned => (FullScore(outcome.value) <=> NoIssues(outcome.value))

\* C28 (amended).  scoreStructure, scoreTestability and scoreCompleteness
\* return score = maxScore exactly when their issues list is empty.
\* scoreClarity returns an empty issues list whenever its score is maxScore,
\* and an empty issues list with a lower score only for 3 or 4 action verbs
\* with at least 3 metrics, which score 25 of 30 with a strength.
C28_FullScoreIffNoIssues ==
  ScorerReturned =>
    /\ FullScore(outcome.value) => NoIssues(outcome.value)
    /\ (NoIssues(outcome.value) /\ ~FullScore(outcome.value)) =>
         /\ op = "scoreClarity"
         /\ outcome.value.detection.actionVerbCount \in {3, 4}
         /\ outcome.value.detection.metricsCount >= 3
         /\ outcome.value.score = 25

C28_Witness ==
  /\ Scored1("scoreClarity")
  /\ outcome.value.detection.actionVerbCount = 3
  /\ outcome.value.detection.metricsCount = 3
  /\ outcome.value.score = 25
  /\ outcome.value.maxScore = 30
  /\ NoIssues(outcome.value)


(***************************************************************************)
(* C29.  No two dimension records of one validateDocument result share an  *)
(* issues or a strengths list: a push through one of structure, clarity,   *)
(* testability and completeness changes none of the other three, for valid *)
(* input and for the result of the guard alike.                            *)
(***************************************************************************)
PushStep == pc = "done" /\ pc' = "pushed"

Changed(p) == outcome'.value[p] # outcome.value[p]

C29_NoSharedLists ==
  [][PushStep => \A a, b \in Dimensions : a # b => ~(Changed(a) /\ Changed(b))]_vars

\* The lists of a valid input's result are four arrays of their own
C29_ValidInputNoSharedLists ==
  [][(PushStep /\ typeof(input) = "string" /\ ~falsy(input)) =>
       \A a, b \in Dimensions : a # b => ~(Changed(a) /\ Changed(b))]_vars

C29_Witness ==
  /\ pc = "pushed"
  /\ typeof(input) = "string" /\ ~falsy(input)
  /\ Len(outcome.value.structure.issues) > 0
  /\ outcome.value.structure.issues[Len(outcome.value.structure.issues)] = "noted by the caller"
  /\ \A d \in Dimensions \ {"structure"} : ~HasIssue(outcome.value[d], "noted by the caller")

C29_SharedWitness ==
  /\ pc = "pushed"
  /\ input = Str("")
  /\ \A d \in Dimensions :
       outcome.value[d].issues = <<"No content to validate", "noted by the caller">>


(***************************************************************************)
(* C30.  A non-empty string in which no pattern of the rubric matches      *)
(* scores structure 0, clarity 0, completeness 0 and testability 25, and   *)
(* its total is 25 less the slop deduction.  A testability score of 0 with *)
(* no detected problem comes from the guard only.                          *)
(***************************************************************************)
\* No pattern matches text, with the RegExp objects as the module load
\* leaves them
PatternFree(text) ==
  /\ ~Scored[text].structure.detection.hasSummary
  /\ Scored[text].structure.detection.checkboxCount = 0
  /\ ~Scored[text].structure.detection.hasOutOfScope
  /\ Scored[text].clarity.detection.actionVerbCount = 0
  /\ Scored[text].clarity.detection.metricsCount = 0
  /\ ~Scored[text].clarity.detection.hasThresholds
  /\ Scored[text].testability.detection.vagueTermCount = 0
  /\ ~Scored[text].testability.detection.hasUserStoryAntiPattern
  /\ ~Scored[text].testability.detection.hasGherkinAntiPattern
  /\ ~Scored[text].testability.detection.hasCompoundCriteria
  /\ ~Scored[text].testability.detection.hasImplementationDetails
  /\ ~Scored[text].completeness.detection.hasErrorCases
  /\ ~Scored[text].completeness.detection.hasEdgeCases
  /\ ~Scored[text].completeness.detection.hasPermissions
  /\ Scored[text].completeness.sections.found = <<>>

\* The testability record reports no vague term, anti-pattern, compound
\* criterion or implementation detail (the guard's record has no detection)
NoProblemDetected(rec) ==
  "detection" \in DOMAIN rec =>
    /\ ~rec.detection.hasIssues
    /\ ~rec.detection.hasCompoundCriteria

C30_PatternFreeScores ==
  /\ (ValidatedText /\ PatternFree(input.str)) =>
       /\ ~outcome.threw
       /\ outcome.value.structure.score = 0
       /\ outcome.value.clarity.score = 0
       /\ outcome.value.completeness.score = 0
       /\ outcome.value.testability.score = 25
       /\ outcome.value.totalScore = 25 - outcome.value.slopDetection.deduction
       /\ outcome.value.slopDetection.deduction = slopDeduction(slop)
  /\ (Validated /\ ~outcome.threw /\ outcome.value.testability.score = 0
        /\ NoProblemDetected(outcome.value.testability)) => ValidatedInvalid

\* 'Hello world' with a slop deduction of 3
C30_Witness ==
  /\ ValidatedText
  /\ input.str = "Hello world"
  /\ PatternFree(input.str)
  /\ outcome.value.slopDetection.deduction = 3
  /\ outcome.value.testability.score = 25
  /\ outcome.value.totalScore = 22

\* a valid text whose testability score is 0: its problems are detected
C30_ZeroWitness ==
  /\ ValidatedText
  /\ outcome.value.testability.score = 0
  /\ outcome.value.testability.detection.hasIssues

\* the guard's testability record: 0 with nothing detected
C30_GuardWitness ==
  /\ ValidatedInvalid
  /\ outcome.value.testability.score = 0
  /\ NoProblemDetected(outcome.value.testability)

====
